---------------------------- MODULE Spec2Model ----------------------------
(***************************************************************************)
(* A model of the protobuf wire-format codec of grpc-web-ts:               *)
(*   src/encoder.ts  BinaryEncoder (byte sink) and the Message base class  *)
(*   src/writer.ts   BinaryWriter  (field-aware writes, delimited scopes)  *)
(*   src/reader.ts   BinaryReader  (cursored decoder, streaming Header)    *)
(*                                                                         *)
(* Numbers.  TLC integers are 32-bit, the codec works on uint32, on int64  *)
(* and on BigInt.  Every numeric VALUE of the program (a JavaScript number *)
(* that goes through bitwise operators, or a BigInt) is therefore a        *)
(* two's-complement bit vector of eighty bits, held as five sixteen-bit    *)
(* limbs.  Positions in the buffer (cursor, end, bookmarks), single bytes  *)
(* and buffer elements are plain integers.                                 *)
(***************************************************************************)
EXTENDS Integers, Sequences, FiniteSets, TLC

(***************************************************************************)
(* Program constants.                                                       *)
(***************************************************************************)
VARINT == 0
FIXED64 == 1
DELIMITED == 2
START_GROUP == 3
END_GROUP == 4
FIXED32 == 5

\* JavaScript's undefined: the value of an uninitialised field and of a
\* typed-array read outside 0..length-1.  No byte, wire type or int32 >> 3
\* equals it.
Undefined == 0 - 2^30

\* NaN, as a value of the reader's length field only.
NaN == 1 - 2^30

(***************************************************************************)
(* Bit vectors: five sixteen-bit limbs, least significant first, read as   *)
(* an eighty-bit two's-complement number.                                   *)
(***************************************************************************)
BZero == <<0, 0, 0, 0, 0>>
BIsNeg(a) == a[5] >= 32768
Fill(a) == IF BIsNeg(a) THEN 65535 ELSE 0

\* The bit vector of an integer in [-2^31, 2^31).
BFromInt(n) ==
  LET f == IF n < 0 THEN 65535 ELSE 0
  IN <<n % 65536, (n \div 65536) % 65536, f, f, f>>
BFromNat(n) == BFromInt(n)

\* A bit vector outside [-2^31, 2^31) is no TLC integer: evaluating this
\* stops TLC with an overflow.
TooWide(a) == 2147483647 + (1 + a[5])

\* The integer a bit vector stands for, which lies in [-2^31, 2^31).
BToInt(a) ==
  IF a[3] = 0 /\ a[4] = 0 /\ a[5] = 0 /\ a[2] < 32768
    THEN a[1] + 65536 * a[2]
  ELSE IF a[3] = 65535 /\ a[4] = 65535 /\ a[5] = 65535 /\ a[2] >= 32768
    THEN a[1] + 65536 * (a[2] - 65536)
  ELSE TooWide(a)

\* Bit i of a.
BitAt(a, i) == (a[(i \div 16) + 1] \div (2^(i % 16))) % 2

\* x & y on sixteen-bit limbs, from the bit of weight p (a power of two) up.
RECURSIVE And16From(_, _, _)
And16From(x, y, p) ==
  IF p > 32768 THEN 0
  ELSE p * (((x \div p) % 2) * ((y \div p) % 2)) + And16From(x, y, 2 * p)
And16(x, y) == And16From(x, y, 1)

\* Limb m of a, beyond the ends: zero below, the sign above.
LimbLo(a, m) == IF m < 1 THEN 0 ELSE a[m]
LimbHi(a, m) == IF m > 5 THEN Fill(a) ELSE a[m]

\* Limb by limb from limb j on, k1 * (x + y) + k2 * (x & y):
\* x & y is 0, 1;  x | y is 1, -1;  x ^ y is 1, -2.
RECURSIVE BitwiseFrom(_, _, _, _, _)
BitwiseFrom(a, b, k1, k2, j) ==
  IF j > 5 THEN <<>>
  ELSE <<k1 * (a[j] + b[j]) + k2 * And16(a[j], b[j])>> \o BitwiseFrom(a, b, k1, k2, j + 1)

BAnd(a, b) == BitwiseFrom(a, b, 0, 1, 1)
BOr(a, b) == BitwiseFrom(a, b, 1, 0 - 1, 1)
BXor(a, b) == BitwiseFrom(a, b, 1, 0 - 2, 1)
BNot(a) == <<65535 - a[1], 65535 - a[2], 65535 - a[3], 65535 - a[4], 65535 - a[5]>>

\* a << (16 q + r), 0 <= r < 16, from limb j on.
RECURSIVE ShlFrom(_, _, _, _)
ShlFrom(a, q, r, j) ==
  IF j > 5 THEN <<>>
  ELSE <<((LimbLo(a, j - q) * (2^r)) % 65536) + (LimbLo(a, (j - q) - 1) \div (2^(16 - r)))>>
         \o ShlFrom(a, q, r, j + 1)
BShl(a, k) == ShlFrom(a, k \div 16, k % 16, 1)

\* a >> (16 q + r), arithmetic, 0 <= r < 16, from limb j on.
RECURSIVE SarFrom(_, _, _, _)
SarFrom(a, q, r, j) ==
  IF j > 5 THEN <<>>
  ELSE <<(LimbHi(a, j + q) \div (2^r)) + ((LimbHi(a, j + q + 1) % (2^r)) * (2^(16 - r)))>>
         \o SarFrom(a, q, r, j + 1)
BSar(a, k) == SarFrom(a, k \div 16, k % 16, 1)

\* Addition modulo 2^80, from limb j on.
RECURSIVE AddFrom(_, _, _, _)
AddFrom(a, b, j, carry) ==
  IF j > 5 THEN <<>>
  ELSE <<(a[j] + b[j] + carry) % 65536>>
         \o AddFrom(a, b, j + 1, (a[j] + b[j] + carry) \div 65536)
BAdd(a, b) == AddFrom(a, b, 1, 0)
BNeg(a) == BAdd(BNot(a), <<1, 0, 0, 0, 0>>)
BSub(a, b) == BAdd(a, BNeg(b))
BLt(a, b) == BIsNeg(BSub(a, b))
BGt(a, b) == BLt(b, a)
BGe(a, b) == ~BLt(a, b)

\* The low n bits of a, 0 < n < 80, above them fill (0 or 65535), from limb j on.
RECURSIVE LowBitsFrom(_, _, _, _)
LowBitsFrom(n, a, fill, j) ==
  IF j > 5 THEN <<>>
  ELSE <<IF n - 16 * (j - 1) >= 16 THEN a[j]
         ELSE IF n - 16 * (j - 1) <= 0 THEN fill
         ELSE (a[j] % (2^(n - 16 * (j - 1))))
                + (IF fill = 0 THEN 0 ELSE 65536 - (2^(n - 16 * (j - 1))))>>
         \o LowBitsFrom(n, a, fill, j + 1)

\* BigInt.asIntN(n, a) and BigInt.asUintN(n, a).
asUintN(n, a) == LowBitsFrom(n, a, 0, 1)
asIntN(n, a) == LowBitsFrom(n, a, 65535 * BitAt(a, n - 1), 1)

\* JavaScript's bitwise operators on numbers: operands are taken ToInt32
\* (ToUint32 for >>>), the result is an int32 (a uint32 for >>>).
ToInt32(a) == asIntN(32, a)
ToUint32(a) == asUintN(32, a)
JsAnd(a, b) == BAnd(ToInt32(a), ToInt32(b))
JsOr(a, b) == BOr(ToInt32(a), ToInt32(b))
JsXor(a, b) == BXor(ToInt32(a), ToInt32(b))
JsShl(a, k) == ToInt32(BShl(ToInt32(a), k))
JsSar(a, k) == BSar(ToInt32(a), k)
JsShr(a, k) == BSar(ToUint32(a), k)

\* Short for the bit vector of a small literal.
B(n) == BFromInt(n)

\* A byte or a small number as the operand of a bitwise operator:
\* ToInt32(undefined) and ToInt32(NaN) are 0.
NumOf(y) == IF y = Undefined THEN BZero ELSE BFromInt(y)

\* The highest set bit of m at or below bit i.
RECURSIVE TopBit(_, _)
TopBit(m, i) == IF BitAt(m, i) = 1 THEN i ELSE TopBit(m, i - 1)

\* m >= 2^53 without its s lowest bits, rounded to nearest, ties to even.
RoundTo53(m, s) ==
  LET q == BSar(m, s)
      rem == BSub(m, BShl(BSar(m, s), s))
      half == BShl(B(1), s - 1)
  IN BShl(IF BGt(rem, half) \/ (rem = half /\ q[1] % 2 = 1) THEN BAdd(q, B(1)) ELSE q, s)

\* Number(a) of a bigint a, and the result of an addition or multiplication
\* of numbers whose exact value is a: the nearest double, which is a itself
\* below 2^53 in magnitude.
ToNumber(a) ==
  LET m == IF BIsNeg(a) THEN BNeg(a) ELSE a
  IN IF m[5] = 0 /\ m[4] < 32 THEN a
     ELSE IF BIsNeg(a) THEN BNeg(RoundTo53(m, TopBit(m, 78) - 52))
     ELSE RoundTo53(m, TopBit(m, 78) - 52)

\* The constants TWO_TO_31, TWO_TO_32, TWO_TO_63 and TWO_TO_64.
TWO_TO_31 == BShl(B(1), 31)
TWO_TO_32 == BShl(B(1), 32)
TWO_TO_63 == BShl(B(1), 63)
TWO_TO_64 == BShl(B(1), 64)

(***************************************************************************)
(* BinaryEncoder (src/encoder.ts).  Each operator is the sequence of       *)
(* elements the method pushes onto this.buffer, a number[].                *)
(***************************************************************************)
RECURSIVE EncUnsignedVarint32(_)
EncUnsignedVarint32(value) ==
  IF BGt(value, B(127))
  THEN <<BToInt(JsOr(JsAnd(value, B(127)), B(128)))>>
         \o EncUnsignedVarint32(JsShr(value, 7))
  ELSE <<BToInt(value)>>

RECURSIVE EncVarint32Loop(_, _)
EncVarint32Loop(v, i) ==
  IF i < 4
  THEN <<BToInt(JsOr(JsAnd(v, B(127)), B(128)))>> \o EncVarint32Loop(JsSar(v, 7), i + 1)
  ELSE <<BToInt(v), 1>>

EncVarint32(v) ==
  IF BGe(v, B(0)) THEN EncUnsignedVarint32(v) ELSE EncVarint32Loop(v, 0)

RECURSIVE EncUnsignedVarint(_)
EncUnsignedVarint(v) ==
  IF BGt(v, B(127))
  THEN <<BToInt(BOr(BAnd(v, B(127)), B(128)))>> \o EncUnsignedVarint(BSar(v, 7))
  ELSE <<BToInt(v)>>

RECURSIVE EncVarintLoop(_, _)
EncVarintLoop(v, i) ==
  IF i < 9
  THEN <<BToInt(BOr(BAnd(v, B(127)), B(128)))>> \o EncVarintLoop(BSar(v, 7), i + 1)
  ELSE <<1>>

EncVarint(v) ==
  IF BGe(v, B(0)) THEN EncUnsignedVarint(v) ELSE EncVarintLoop(v, 0)

\* Variant of EncZigzag32 that leaves out the sign fold  ^ (value >> 31);
\* C11 does not hold of it.
EncZigzag32Unfolded(value) == EncUnsignedVarint32(JsShr(JsShl(value, 1), 0))

EncZigzag32(value) ==
  EncUnsignedVarint32(JsShr(JsXor(JsShl(value, 1), JsSar(value, 31)), 0))

EncZigzag64(x) == EncVarint(BXor(BShl(x, 1), BSar(x, 63)))

\* An element of the number[] buffer as an integer of the model.  A number
\* beyond 32 bits is kept by its octet, all that new Uint8Array takes of it.
Stored(e) == IF asIntN(32, e) = e THEN BToInt(e) ELSE e[1] % 256

EncFixed32(value) ==
  [i \in 1..4 |-> BToInt(JsAnd(JsShr(value, 8 * (i - 1)), B(255)))]

\* The numbers Fixed64(value) pushes: Number(value >> 0n), Number(value >> 8n), ...
Fixed64Numbers(value) == [i \in 1..8 |-> ToNumber(BSar(value, 8 * (i - 1)))]

EncFixed64(value) == [i \in 1..8 |-> Stored(Fixed64Numbers(value)[i])]

\* new Uint8Array(buffer): each element is taken modulo 256.
ToUint8Array(buf) == [i \in 1..Len(buf) |-> buf[i] % 256]

\* str.charCodeAt(i): NaN past the end of the string.
CharCodeAt(str, i) == IF i < Len(str) THEN str[i + 1] ELSE Undefined

\* a | b, a & b and a >> k on numbers that are small integers (or NaN).
IntOr(a, b) == BToInt(JsOr(NumOf(a), NumOf(b)))
IntAnd(a, b) == BToInt(JsAnd(NumOf(a), NumOf(b)))
IntSar(a, k) == BToInt(JsSar(NumOf(a), k))
IntShl(a, k) == BToInt(JsShl(NumOf(a), k))

\* The surrogate branch of String: the code point of the pair at i, i + 1.
SurrogatePoint(str, i) ==
  65536 + IntOr(IntShl(IntAnd(CharCodeAt(str, i), 1023), 10),
                IntAnd(CharCodeAt(str, i + 1), 1023))

\* String(str), one turn of its loop at index i: what it pushes and the
\* index of the next turn.
EncStringStep(str, i, charcode) ==
  IF charcode < 128 THEN [push |-> <<charcode>>, next |-> i + 1]
  ELSE IF charcode < 2048
    THEN [push |-> <<IntOr(192, IntSar(charcode, 6)), IntOr(128, IntAnd(charcode, 63))>>,
          next |-> i + 1]
  ELSE IF charcode < 55296 \/ charcode >= 57344
    THEN [push |-> <<IntOr(224, IntSar(charcode, 12)),
                     IntOr(128, IntAnd(IntSar(charcode, 6), 63)),
                     IntOr(128, IntAnd(charcode, 63))>>,
          next |-> i + 1]
  ELSE [push |-> <<IntOr(240, IntSar(SurrogatePoint(str, i), 18)),
                   IntOr(128, IntAnd(IntSar(SurrogatePoint(str, i), 12), 63)),
                   IntOr(128, IntAnd(IntSar(SurrogatePoint(str, i), 6), 63)),
                   IntOr(128, IntAnd(SurrogatePoint(str, i), 63))>>,
        next |-> i + 2]

RECURSIVE EncStringFrom(_, _)
EncStringFrom(str, i) ==
  IF i < Len(str)
  THEN EncStringStep(str, i, str[i + 1]).push
         \o EncStringFrom(str, EncStringStep(str, i, str[i + 1]).next)
  ELSE <<>>

EncString(str) == EncStringFrom(str, 0)

(***************************************************************************)
(* BinaryWriter (src/writer.ts): the pure part of each write, the elements *)
(* it pushes onto the encoder's buffer.                                     *)
(***************************************************************************)
\* Tag(field, wireType), field an integer >= 1: field * 8 is field shifted
\* left by three.
WrTag(field, wireType) == EncUnsignedVarint32(BAdd(BShl(B(field), 3), B(wireType)))

\* The loop of endDelimited: tmp for a messageLength above 127.
RECURSIVE EndDelimitedLoop(_)
EndDelimitedLoop(messageLength) ==
  IF BGt(messageLength, B(127))
  THEN <<BToInt(JsOr(JsAnd(messageLength, B(127)), B(128)))>>
         \o EndDelimitedLoop(JsShr(messageLength, 7))
  ELSE <<>>

\* The elements endDelimited splices in at the bookmark.
EndDelimitedBytes(messageLength) ==
  IF messageLength >= 0
  THEN (IF messageLength > 127 THEN EndDelimitedLoop(B(messageLength))
        ELSE <<messageLength>>)
  ELSE <<>>

\* buf.splice(at, 0, ...ins), 0 <= at <= buf.length.
Splice(buf, at, ins) == SubSeq(buf, 1, at) \o ins \o SubSeq(buf, at + 1, Len(buf))

\* endDelimited(bookmark) on the buffer buf.
EndDelimited(buf, bookmark) ==
  Splice(buf, bookmark, EndDelimitedBytes(Len(buf) - bookmark))

\* The payload of PackedInt32(field, value).
RECURSIVE WrPackedInt32Loop(_, _)
WrPackedInt32Loop(vs, i) ==
  IF i < Len(vs) THEN EncVarint32(vs[i + 1]) \o WrPackedInt32Loop(vs, i + 1) ELSE <<>>

\* A write guarded by a range test: the elements es when ok, a throw otherwise.
Guarded(ok, es) == [threw |-> ~ok, es |-> IF ok THEN es ELSE <<>>]

\* Variant of InSigned whose upper end is closed; C17 does not hold of it.
InSignedClosed(value, top) == BGe(value, BNeg(top)) /\ ~BGt(value, top)

\* The test  value >= -2^k && value < 2^k  with top = 2^k.
InSigned(value, top) == BGe(value, BNeg(top)) /\ BLt(value, top)

WrInt32(field, value) ==
  Guarded(InSigned(value, TWO_TO_31), WrTag(field, VARINT) \o EncVarint32(value))
WrInt64(field, value) ==
  Guarded(InSigned(value, TWO_TO_63), WrTag(field, VARINT) \o EncVarint(value))
WrUint32(field, value) ==
  Guarded(BGe(value, B(0)) /\ BLt(value, TWO_TO_32),
          WrTag(field, VARINT) \o EncUnsignedVarint32(value))
WrUint64(field, value) ==
  Guarded(BGe(value, B(0)) /\ BLt(value, TWO_TO_63), WrTag(field, VARINT) \o EncVarint(value))
WrSint32(field, value) ==
  Guarded(InSigned(value, TWO_TO_31), WrTag(field, VARINT) \o EncZigzag32(value))

\* Sint64 has no else branch: out of range it returns having written nothing.
WrSint64(field, value) ==
  [threw |-> FALSE,
   es |-> IF InSigned(value, TWO_TO_63) THEN WrTag(field, VARINT) \o EncZigzag64(value)
          ELSE <<>>]

WrFixed32(field, value) ==
  Guarded(BLt(value, TWO_TO_32), WrTag(field, FIXED32) \o EncFixed32(value))
WrFixed64(field, value) ==
  Guarded(BLt(value, TWO_TO_64), WrTag(field, FIXED64) \o EncFixed64(value))
WrSfixed32(field, value) ==
  Guarded(InSigned(value, TWO_TO_31), WrTag(field, FIXED32) \o EncFixed32(value))
WrSfixed64(field, value) ==
  Guarded(InSigned(value, TWO_TO_63), WrTag(field, FIXED64) \o EncFixed64(value))

WrVarint32(field, value) == WrTag(field, VARINT) \o EncVarint32(value)
WrVarint(field, value) == WrTag(field, VARINT) \o EncVarint(value)
WrBool(field, value) == WrTag(field, VARINT) \o <<IF value THEN 1 ELSE 0>>

\* Enum(field, value), value an integer: the test value == Math.floor(value)
\* holds.
WrEnum(field, value) == WrTag(field, VARINT) \o EncVarint32(value)

\* String(field, value): value.length is never below 0 or above 2^52.
WrString(field, value) ==
  EndDelimited(WrTag(field, DELIMITED) \o EncString(value), Len(WrTag(field, DELIMITED)))

WrBytes(field, value) ==
  WrTag(field, DELIMITED) \o EncUnsignedVarint32(B(Len(value))) \o value

\* A write that does not throw.
Wrote(es) == [threw |-> FALSE, es |-> es]

\* The key switch of Map: the write of the key k as field 1.
WrMapKey(kFT, k) ==
  CASE kFT \in {"INT64", "UINT64"} -> Wrote(WrVarint(1, k))
    [] kFT = "INT32" -> Wrote(WrVarint32(1, k))
    [] kFT \in {"FIXED64", "SFIXED64"} -> WrFixed64(1, k)
    [] kFT \in {"FIXED32", "SFIXED32"} -> WrFixed32(1, k)
    [] kFT = "BOOL" -> Wrote(WrBool(1, k))
    [] kFT = "STRING" -> Wrote(WrString(1, k))
    [] kFT = "UINT32" -> WrUint32(1, k)
    [] kFT = "ENUM" -> Wrote(WrEnum(1, k))
    [] kFT = "SINT32" -> WrSint32(1, k)
    [] kFT = "SINT64" -> WrSint64(1, k)
    [] OTHER -> [threw |-> TRUE, es |-> <<>>]

\* The value switch of Map: the write of the value v as field 2.  DOUBLE,
\* FLOAT and MESSAGE values are not among the values written here.
WrMapValue(vFT, v) ==
  CASE vFT \in {"INT64", "UINT64"} -> Wrote(WrVarint(2, v))
    [] vFT = "INT32" -> Wrote(WrVarint32(2, v))
    [] vFT \in {"FIXED64", "SFIXED64"} -> WrFixed64(2, v)
    [] vFT \in {"FIXED32", "SFIXED32"} -> WrFixed32(2, v)
    [] vFT = "BOOL" -> Wrote(WrBool(2, v))
    [] vFT = "STRING" -> Wrote(WrString(2, v))
    [] vFT = "BYTES" -> Wrote(WrBytes(2, v))
    [] vFT = "UINT32" -> WrUint32(2, v)
    [] vFT = "ENUM" -> Wrote(WrEnum(2, v))
    [] vFT = "SINT32" -> WrSint32(2, v)
    [] vFT = "SINT64" -> WrSint64(2, v)
    [] vFT \in {"INVALID", "GROUP"} -> [threw |-> TRUE, es |-> <<>>]

\* One turn of the loop of Map on the buffer buf: beginDelimited(field), the
\* key, the value, endDelimited(bookmark).  A throw leaves the turn at once.
WrMapEntry(buf, field, k, v, kFT, vFT) ==
  LET open == buf \o WrTag(field, DELIMITED)
      key == WrMapKey(kFT, k)
      val == WrMapValue(vFT, v)
  IN IF key.threw THEN [threw |-> TRUE, buf |-> open, closed |-> FALSE]
     ELSE IF val.threw THEN [threw |-> TRUE, buf |-> open \o key.es, closed |-> FALSE]
     ELSE [threw |-> FALSE, buf |-> EndDelimited(open \o key.es \o val.es, Len(open)),
           closed |-> TRUE]

\* Map(field, value, kFT, vFT) from entry i on, value the entries of the map
\* in the order of its iterator.
RECURSIVE WrMap(_, _, _, _, _, _)
WrMap(buf, field, value, kFT, vFT, i) ==
  IF i > Len(value) THEN [threw |-> FALSE, buf |-> buf, closed |-> TRUE]
  ELSE LET w == WrMapEntry(buf, field, value[i][1], value[i][2], kFT, vFT)
       IN IF w.threw THEN w ELSE WrMap(w.buf, field, value, kFT, vFT, i + 1)

(***************************************************************************)
(* BinaryReader (src/reader.ts): the pure part of each read.  A read is    *)
(* given the input bytes, the cursor and the end and yields                *)
(*   [val, cursor, err]: the value returned, the cursor it leaves and      *)
(* whether it threw (the cursor is the one the throw leaves behind).       *)
(***************************************************************************)
\* this.bytes[i] on a Uint8Array: undefined outside 0..length-1.
ByteAt(b, i) == IF i >= 0 /\ i < Len(b) THEN b[i + 1] ELSE Undefined

\* y < 128 and y >= 128: both false when y is undefined.
IsLt128(y) == y # Undefined /\ y < 128
IsGe128(y) == y # Undefined /\ y >= 128

Ret(v, c) == [val |-> v, cursor |-> c, err |-> FALSE]
Throw(c) == [val |-> BZero, cursor |-> c, err |-> TRUE]

\* advance(count), then return v.
AdvanceRet(c, e, count, v) == IF c + count > e THEN Throw(c + count) ELSE Ret(v, c + count)

\* Variant of Varint32Tail that leaves the bytes past the fifth unread; C9
\* does not hold of it.
Varint32TailUnread(b, c, k) == [long |-> FALSE, cursor |-> c]

\* The chain  bytes[cursor++] >= 128 && ...  (five terms, short-circuit):
\* k terms have been evaluated and were true.
RECURSIVE Varint32Tail(_, _, _)
Varint32Tail(b, c, k) ==
  IF k = 5 THEN [long |-> TRUE, cursor |-> c]
  ELSE IF IsGe128(ByteAt(b, c)) THEN Varint32Tail(b, c + 1, k + 1)
  ELSE [long |-> FALSE, cursor |-> c + 1]

\* Varint32 past its fifth byte: advance(5), the chain t, the bounds check.
Varint32Long(c, e, x, t) ==
  IF c + 5 > e THEN Throw(c + 5)
  ELSE IF t.long THEN Throw(t.cursor)
  ELSE IF t.cursor > e THEN Throw(t.cursor)
  ELSE Ret(x, t.cursor)

\* x |= (y & 0x7f) << 7 i, for the fifth byte x |= (y & 0x0f) << 28.
Varint32Or(x, y, i) ==
  JsOr(x, JsShl(JsAnd(NumOf(y), B(IF i = 4 THEN 15 ELSE 127)), 7 * i))

\* Varint32 at its byte i (0..4), x holding the bits of bytes 0..i.
RECURSIVE RdVarint32From(_, _, _, _, _)
RdVarint32From(b, c, e, x, i) ==
  IF IsLt128(ByteAt(b, c + i))
  THEN AdvanceRet(c, e, i + 1, IF i = 4 THEN JsShr(x, 0) ELSE x)
  ELSE IF i = 4 THEN Varint32Long(c, e, x, Varint32Tail(b, c + 5, 0))
  ELSE RdVarint32From(b, c, e, Varint32Or(x, ByteAt(b, c + i + 1), i + 1), i + 1)

RdVarint32(b, c, e) == RdVarint32From(b, c, e, Varint32Or(BZero, ByteAt(b, c), 0), 0)

\* Variant of sign that never sign-extends; C10 does not hold of it.
signNever(v, s) == asUintN(64, v)

sign(v, s) == IF s THEN asIntN(64, v) ELSE asUintN(64, v)

\* Variant of Fits64 that takes any tenth byte without a continuation bit;
\* C15 does not hold of it.
Fits64Loose(y) == y < 128

\* The test  y < 2n  on the tenth byte of a 64-bit varint.
Fits64(y) == y < 2

\* Byte i of a 64-bit varint, v being the bits gathered so far.
\* BigInt(undefined) throws a TypeError before the cursor moves.
RECURSIVE RdVarintFrom(_, _, _, _, _, _)
RdVarintFrom(b, c, e, s, v, i) ==
  LET y == ByteAt(b, c + i)
      v1 == BOr(v, BShl(NumOf(y), 7 * i))
  IN IF y = Undefined THEN Throw(c)
     ELSE IF i = 9
       THEN (IF Fits64(y) THEN AdvanceRet(c, e, 10, sign(v1, s)) ELSE Throw(c))
     ELSE IF y < 128 THEN AdvanceRet(c, e, i + 1, sign(v1, s))
     ELSE RdVarintFrom(b, c, e, s, BSub(v1, BShl(B(128), 7 * i)), i + 1)

RdVarint(b, c, e, s) == RdVarintFrom(b, c, e, s, BZero, 0)

\* The loop of Header: i bytes of the envelope have been read into l
\* (nan: l is NaN, the last byte read was undefined; NaN << 8 is 0).
RECURSIVE HeaderLoop(_, _, _, _, _, _)
HeaderLoop(b, c, e, l, nan, i) ==
  IF i = 5 THEN [l |-> l, nan |-> nan, cursor |-> c, err |-> FALSE]
  ELSE LET y == ByteAt(b, c)
           shifted == JsShl(IF nan THEN BZero ELSE l, 8)
           l1 == IF y = Undefined THEN BZero ELSE BAdd(shifted, BFromNat(y))
       IN IF c + 1 > e THEN [l |-> l1, nan |-> y = Undefined, cursor |-> c + 1, err |-> TRUE]
          ELSE HeaderLoop(b, c + 1, e, l1, y = Undefined, i + 1)

\* JavaScript's a || b on numbers.
JsOrOr(a, b) == IF a # 0 THEN a ELSE b

\* The wire-type test of NextField: TRUE when the tag is rejected.
InvalidWireType(type) ==
  /\ type # VARINT
  /\ type # FIXED32
  /\ type # FIXED64
  /\ type # DELIMITED
  /\ type = JsOrOr(START_GROUP, END_GROUP)

\* Variant of SkipVarint that skips one byte whatever it is; C20 does not hold
\* of it.
SkipVarintOnce(b, c, e) == AdvanceRet(c, e, 1, BZero)

\* skipField, wire type VARINT: while (bytes[cursor] & 0x80) advance(1); advance(1).
RECURSIVE SkipVarint(_, _, _)
SkipVarint(b, c, e) ==
  IF BToInt(JsAnd(NumOf(ByteAt(b, c)), B(128))) # 0
  THEN (IF c + 1 > e THEN Throw(c + 1) ELSE SkipVarint(b, c + 1, e))
  ELSE AdvanceRet(c, e, 1, BZero)

RdSkipField(b, c, e, wt) ==
  IF wt = VARINT THEN SkipVarint(b, c, e)
  ELSE IF wt = FIXED64 THEN AdvanceRet(c, e, 8, BZero)
  ELSE IF wt = DELIMITED
    THEN LET l == RdVarint32(b, c, e)
         IN IF l.err THEN l ELSE AdvanceRet(l.cursor, e, BToInt(l.val), BZero)
  ELSE IF wt = FIXED32 THEN AdvanceRet(c, e, 4, BZero)
  ELSE Throw(c)

RdInt32(b, c, e, wt) == IF wt = VARINT THEN RdVarint32(b, c, e) ELSE Throw(c)
RdUint32(b, c, e, wt) == IF wt = VARINT THEN RdVarint32(b, c, e) ELSE Throw(c)
RdEnum(b, c, e, wt) == IF wt = VARINT THEN RdVarint32(b, c, e) ELSE Throw(c)
RdInt64(b, c, e, wt) == IF wt = VARINT THEN RdVarint(b, c, e, TRUE) ELSE Throw(c)
RdUint64(b, c, e, wt) == IF wt = VARINT THEN RdVarint(b, c, e, FALSE) ELSE Throw(c)

RdSint32(b, c, e, wt) ==
  IF wt = VARINT
  THEN LET z == RdVarint32(b, c, e)
       IN IF z.err THEN z
          ELSE Ret(JsXor(JsShr(z.val, 1), BNeg(JsAnd(z.val, B(1)))), z.cursor)
  ELSE Throw(c)

RdSint64(b, c, e, wt) ==
  IF wt = VARINT
  THEN LET z == RdVarint(b, c, e, FALSE)
       IN IF z.err THEN z
          ELSE Ret(BXor(BSar(z.val, 1),
                        BNeg(BAnd(BSar(BShl(z.val, 63), 63), B(1)))), z.cursor)
  ELSE Throw(c)

\* !!this.bytes[this.cursor++]: no bounds check.
RdBool(b, c, e, wt) ==
  IF wt = VARINT
  THEN [val |-> (ByteAt(b, c) # Undefined /\ ByteAt(b, c) # 0), cursor |-> c + 1, err |-> FALSE]
  ELSE [val |-> FALSE, cursor |-> c, err |-> TRUE]

RdFixed32(b, c, e, wt) ==
  IF wt = FIXED32
  THEN LET v == JsOr(JsOr(JsOr(JsShl(NumOf(ByteAt(b, c)), 0),
                               JsShl(NumOf(ByteAt(b, c + 1)), 8)),
                          JsShl(NumOf(ByteAt(b, c + 2)), 16)),
                     JsShl(NumOf(ByteAt(b, c + 3)), 24))
       IN AdvanceRet(c, e, 4, v)
  ELSE Throw(c)

\* The int32 that Fixed64 gathers from the four bytes at c.
Word32(b, c) ==
  JsOr(JsOr(JsOr(JsShl(NumOf(ByteAt(b, c)), 0), JsShl(NumOf(ByteAt(b, c + 1)), 8)),
            JsShl(NumOf(ByteAt(b, c + 2)), 16)),
       JsShl(NumOf(ByteAt(b, c + 3)), 24))

\* BigInt(high * TWO_TO_32 + (low >>> 0)): the product is exact, the sum is
\* rounded to a double.
RdFixed64(b, c, e, wt) ==
  IF wt # FIXED64 THEN Throw(c)
  ELSE IF c + 4 > e THEN Throw(c + 4)
  ELSE AdvanceRet(c + 4, e, 4,
                  ToNumber(BAdd(BShl(Word32(b, c + 4), 32), JsShr(Word32(b, c), 0))))

\* x & m for a byte x that may be undefined, as an integer.
ByteAnd(y, m) == BToInt(JsAnd(NumOf(y), B(m)))

\* One turn of the decoding loop of String at the local cursor c, a byte
\* of the array: the code units it pushes and the cursor it leaves.
StringStep(b, c) ==
  LET ch == ByteAt(b, c)
      c1 == ByteAnd(ByteAt(b, c + 1), 63)
      c2 == ByteAnd(ByteAt(b, c + 2), 63)
      c3 == ByteAnd(ByteAt(b, c + 3), 63)
      codepoint == ((ch % 8) * 262144 + c1 * 4096 + c2 * 64 + c3) - 65536
  IN IF ch < 128 THEN [units |-> <<ch>>, cursor |-> c + 1]
     ELSE IF ch < 192 THEN [units |-> <<>>, cursor |-> c + 1]
     ELSE IF ch < 224 THEN [units |-> <<(ch % 32) * 64 + c1>>, cursor |-> c + 2]
     ELSE IF ch < 240
       THEN [units |-> <<(ch % 16) * 4096 + c1 * 64 + c2>>, cursor |-> c + 3]
     ELSE IF ch < 248
       THEN [units |-> <<((codepoint \div 1024) % 1024) + 55296, (codepoint % 1024) + 56320>>,
             cursor |-> c + 4]
     ELSE [units |-> <<>>, cursor |-> c + 1]

\* The decoding loop of String: the local cursor c, the local end, the code
\* units pushed so far.  Outside the array every byte is undefined: it
\* matches no branch, pushes nothing and moves the cursor by one, so the
\* loop is at endp (or at index 0) next.
RECURSIVE StringLoop(_, _, _, _)
StringLoop(b, c, endp, units) ==
  IF ~(c < endp) THEN [units |-> units, cursor |-> c]
  ELSE IF c >= Len(b) THEN [units |-> units, cursor |-> endp]
  ELSE LET st == IF c < 0 THEN [units |-> <<>>, cursor |-> IF endp < 0 THEN endp ELSE 0]
                 ELSE StringStep(b, c)
       IN StringLoop(b, st.cursor, endp, units \o st.units)

\* l < 0 || l > TWO_TO_52, l being a uint32 or an int32.
BadLength(l) == BLt(l, B(0))

RdString(b, c, e, wt) ==
  IF wt = DELIMITED
  THEN LET l == RdVarint32(b, c, e)
       IN IF l.err THEN [val |-> <<>>, cursor |-> l.cursor, err |-> TRUE]
          ELSE IF BadLength(l.val) THEN [val |-> <<>>, cursor |-> l.cursor, err |-> TRUE]
          ELSE LET d == StringLoop(b, l.cursor, l.cursor + BToInt(l.val), <<>>)
               IN [val |-> d.units, cursor |-> d.cursor, err |-> FALSE]
  ELSE [val |-> <<>>, cursor |-> c, err |-> TRUE]

\* bytes.subarray(from, to): relative indices are clamped to the array.
Clamp(i, n) == IF i < 0 THEN (IF n + i < 0 THEN 0 ELSE n + i) ELSE IF i > n THEN n ELSE i
subarray(b, from, to) ==
  LET lo == Clamp(from, Len(b))
      hi == Clamp(to, Len(b))
  IN IF hi > lo THEN SubSeq(b, lo + 1, hi) ELSE <<>>

RdBytes(b, c, e, wt) ==
  IF wt = DELIMITED
  THEN LET l == RdVarint32(b, c, e)
       IN IF l.err THEN [val |-> <<>>, cursor |-> l.cursor, err |-> TRUE]
          ELSE IF BadLength(l.val) THEN [val |-> <<>>, cursor |-> l.cursor, err |-> TRUE]
          ELSE LET n == BToInt(l.val)
               IN [val |-> subarray(b, l.cursor, l.cursor + n),
                   cursor |-> l.cursor + n,
                   err |-> l.cursor + n > e]
  ELSE [val |-> <<>>, cursor |-> c, err |-> TRUE]

\* The loop of PackedInt32: while (this.cursor < end) result.push(this.Varint32()).
RECURSIVE PackedInt32Loop(_, _, _, _, _)
PackedInt32Loop(b, c, e, endp, result) ==
  IF c < endp
  THEN LET x == RdVarint32(b, c, e)
       IN IF x.err THEN [val |-> result, cursor |-> x.cursor, err |-> TRUE]
          ELSE PackedInt32Loop(b, x.cursor, e, endp, Append(result, x.val))
  ELSE [val |-> result, cursor |-> c, err |-> FALSE]

RdPackedInt32(b, c, e, wt) ==
  IF wt = DELIMITED
  THEN LET l == RdVarint32(b, c, e)
       IN IF l.err THEN [val |-> <<>>, cursor |-> l.cursor, err |-> TRUE]
          ELSE PackedInt32Loop(b, l.cursor, e, l.cursor + BToInt(l.val), <<>>)
  ELSE [val |-> <<>>, cursor |-> c, err |-> TRUE]

\* The wire type the key or value switch of Map leaves for the type ft, wt
\* being the wire type before.
MapWireType(ft, wt) ==
  CASE ft \in {"FIXED64", "SFIXED64"} -> FIXED64
    [] ft \in {"FIXED32", "SFIXED32"} -> FIXED32
    [] ft \in {"BOOL", "ENUM", "SINT32", "SINT64"} -> VARINT
    [] OTHER -> wt

\* Variant of the key switch of Map with a case for BYTES keys; C22 does
\* not hold of it.
RdMapKeyOfBytes(b, c, e, wt, kFT) ==
  CASE kFT = "INT64" -> RdVarint(b, c, e, TRUE)
    [] kFT = "UINT64" -> RdVarint(b, c, e, FALSE)
    [] kFT \in {"INT32", "UINT32"} -> RdVarint32(b, c, e)
    [] kFT \in {"FIXED64", "SFIXED64"} -> RdFixed64(b, c, e, FIXED64)
    [] kFT \in {"STRING", "BYTES"} -> RdString(b, c, e, wt)
    [] kFT \in {"FIXED32", "SFIXED32"} -> RdFixed32(b, c, e, FIXED32)
    [] kFT = "BOOL" -> RdBool(b, c, e, VARINT)
    [] kFT = "ENUM" -> RdEnum(b, c, e, VARINT)
    [] kFT = "SINT32" -> RdSint32(b, c, e, VARINT)
    [] kFT = "SINT64" -> RdSint64(b, c, e, VARINT)
    [] OTHER -> Throw(c)

\* The key switch of Map.
RdMapKey(b, c, e, wt, kFT) ==
  CASE kFT = "INT64" -> RdVarint(b, c, e, TRUE)
    [] kFT = "UINT64" -> RdVarint(b, c, e, FALSE)
    [] kFT \in {"INT32", "UINT32"} -> RdVarint32(b, c, e)
    [] kFT \in {"FIXED64", "SFIXED64"} -> RdFixed64(b, c, e, FIXED64)
    [] kFT = "STRING" -> RdString(b, c, e, wt)
    [] kFT \in {"FIXED32", "SFIXED32"} -> RdFixed32(b, c, e, FIXED32)
    [] kFT = "BOOL" -> RdBool(b, c, e, VARINT)
    [] kFT = "ENUM" -> RdEnum(b, c, e, VARINT)
    [] kFT = "SINT32" -> RdSint32(b, c, e, VARINT)
    [] kFT = "SINT64" -> RdSint64(b, c, e, VARINT)
    [] OTHER -> Throw(c)

\* The value switch of Map, wt the wire type the key switch has left.
\* DOUBLE, FLOAT and MESSAGE values are not among the values read here.
RdMapValue(b, c, e, wt, vFT) ==
  CASE vFT = "INT64" -> RdVarint(b, c, e, TRUE)
    [] vFT = "UINT64" -> RdVarint(b, c, e, FALSE)
    [] vFT \in {"INT32", "UINT32"} -> RdVarint32(b, c, e)
    [] vFT \in {"FIXED64", "SFIXED64"} -> RdFixed64(b, c, e, FIXED64)
    [] vFT = "BOOL" -> RdBool(b, c, e, VARINT)
    [] vFT = "BYTES" -> RdBytes(b, c, e, wt)
    [] vFT = "STRING" -> RdString(b, c, e, wt)
    [] vFT = "ENUM" -> RdEnum(b, c, e, VARINT)
    [] vFT \in {"FIXED32", "SFIXED32"} -> RdFixed32(b, c, e, FIXED32)
    [] vFT = "SINT32" -> RdSint32(b, c, e, VARINT)
    [] vFT = "SINT64" -> RdSint64(b, c, e, VARINT)
    [] vFT \in {"INVALID", "GROUP"} -> Throw(c)

\* What a Map that throws leaves: the cursor, the end, the wire type.
MapThrow(c, e, wt) ==
  [key |-> <<>>, val |-> <<>>, cursor |-> c, end |-> e, wt |-> wt, err |-> TRUE]

\* Map(kFT, vFT): the entry read, and the cursor, the end and the wire type
\* it leaves.  end is nEnd from the length on and is oEnd again only on the
\* last line, the one before the return.
RdMap(b, c, e, wt, kFT, vFT) ==
  IF wt # DELIMITED THEN MapThrow(c, e, wt)
  ELSE
    LET l == RdVarint32(b, c, e)
        nEnd == l.cursor + BToInt(l.val)
        t1 == RdVarint32(b, l.cursor, nEnd)
        kwt == MapWireType(kFT, wt)
        key == RdMapKey(b, t1.cursor, nEnd, wt, kFT)
        t2 == RdVarint32(b, key.cursor, nEnd)
        vwt == MapWireType(vFT, kwt)
        val == RdMapValue(b, t2.cursor, nEnd, kwt, vFT)
    IN IF l.err THEN MapThrow(l.cursor, e, wt)
       ELSE IF t1.err THEN MapThrow(t1.cursor, nEnd, wt)
       ELSE IF key.err THEN MapThrow(key.cursor, nEnd, kwt)
       ELSE IF t2.err THEN MapThrow(t2.cursor, nEnd, kwt)
       ELSE IF val.err THEN MapThrow(val.cursor, nEnd, vwt)
       ELSE [key |-> key.val, val |-> val.val, cursor |-> nEnd, end |-> e, wt |-> vwt,
             err |-> FALSE]

(***************************************************************************)
(* State.                                                                   *)
(***************************************************************************)
VARIABLES
  \* BinaryReader (src/reader.ts lines 7-15)
  bytes, cursor, end, nextField, nextWireType, length,
  \* the activations of Message() in progress, innermost first: its locals
  \* oEnd and nEnd
  calls,
  \* what the last reader call was, whether it threw, what it returned (with
  \* the name of the call), and the reader as the call found it
  op, failed, ret, pre,
  \* for each activation of Message(): end before the call, the cursor just
  \* after the length varint, the declared length
  entries,
  \* the client of the reader: the entry point taken (Message.deserializeBinary,
  \* Message.Unary, Message.Stream), the message class (schema) it decodes
  \* with, what it calls next, the message being decoded, the messages
  \* decoded so far (the arr of Message.Stream), and the bodies the input was
  \* framed from (empty when the input is not a concatenation of frames)
  entry, schema, pc, msg, arr, frames,
  \* BinaryEncoder.buffer (src/encoder.ts line 6), the delimited scopes that
  \* Message() has open, innermost first, the last write, and the record of
  \* the last endDelimited: its bookmark, the elements pushed inside the
  \* scope, the elements it spliced in (with the count of scopes closed and
  \* of writes made so far)
  buffer, marks, wop, spliced,
  \* the number a round trip started from, or the value of the last
  \* range-checked write (failed then tells whether that write threw), and
  \* the kind of the encoding of a round trip
  num, kind,
  \* the map a round trip started from: the field types of its keys and of
  \* its values, and its entries in the order of its iterator
  map

readerVars == <<bytes, cursor, end, nextField, nextWireType, length, calls>>
watchVars == <<op, failed, ret, pre, entries>>
clientVars == <<entry, schema, pc, msg, arr, frames>>
writerVars == <<buffer, marks, wop, spliced>>
codecVars == <<num, kind, map>>
vars == <<readerVars, watchVars, clientVars, writerVars, codecVars>>

(***************************************************************************)
(* Inputs of the reader.                                                    *)
(***************************************************************************)
\* Longest input enumerated byte by byte.
MaxLen == 2

\* 01 02: small values and lengths; 08 0A 0C: the tags of field 1 with wire
\* type VARINT, DELIMITED, END_GROUP; 96: a byte with the continuation bit.
Alphabet == {1, 2, 8, 10, 12, 150}

RawInputs == UNION {[1..n -> Alphabet] : n \in 0..MaxLen}

\* The five-byte envelope of a body of n < 256 bytes.
Envelope(n) == <<0, 0, 0, 0, n>>

\* A single frame holding s.
Framed(s) == Envelope(Len(s)) \o s

HandInputs ==
  { <<8, 150, 1>>,
    \* a frame whose body ends with a tag only
    <<0, 0, 0, 0, 1, 8>>,
    \* envelopes with a non-zero first byte, and with the top bit of the second set
    <<1, 0, 0, 0, 3, 8, 150, 1>>,
    <<0, 128, 0, 0, 3, 8, 150, 1>>,
    \* tags of wire type 3, 4, 6, 7
    <<0, 0, 0, 0, 1, 11>>, <<0, 0, 0, 0, 1, 12>>, <<0, 0, 0, 0, 1, 14>>, <<0, 0, 0, 0, 1, 15>>,
    <<11, 1>>, <<12, 1>>, <<14, 1>>, <<15, 1>>,
    \* -1 as a 6-byte and as a 10-byte varint, 2^32-1 as a 5-byte varint
    Framed(<<8, 255, 255, 255, 255, 255, 1>>),
    Framed(<<8, 255, 255, 255, 255, 255, 255, 255, 255, 255, 1>>),
    Framed(<<8, 255, 255, 255, 255, 15>>),
    \* an 11-byte varint
    Framed(<<8, 255, 255, 255, 255, 255, 255, 255, 255, 255, 255, 1>>),
    \* a 10-byte varint whose last byte is 2
    Framed(<<8, 128, 128, 128, 128, 128, 128, 128, 128, 128, 2>>),
    \* an embedded message of three bytes, then a field
    Framed(<<10, 3, 8, 150, 1, 8, 1>>),
    \* an embedded message declared longer than the input
    Framed(<<10, 5, 8, 1>>),
    \* an embedded message declared to end past the input, its field a tag only
    Framed(<<10, 8, 8>>),
    \* an embedded message that starts where the frame ends
    <<0, 0, 0, 0, 2, 10, 3, 8, 150, 1>>,
    \* an embedded message whose last field is a tag only, then a field
    Framed(<<10, 1, 8, 8, 1>>),
    \* a string and a packed field
    Framed(<<18, 7, 116, 101, 115, 116, 105, 110, 103>>),
    Framed(<<42, 6, 3, 142, 2, 158, 167, 5>>),
    \* a string whose last character is cut by the declared length
    Framed(<<18, 1, 195, 169, 8, 1>>),
    \* a fixed32 field
    Framed(<<37, 239, 190, 173, 222>>),
    \* a fixed64 field, then a field
    Framed(<<9, 1, 0, 0, 0, 0, 0, 32, 0, 8, 1>>),
    \* a string whose length 1 is written in two bytes, then a field
    Framed(<<18, 129, 0, 65, 8, 1>>),
    \* two frames, the first one byte short of its last field
    <<0, 0, 0, 0, 2, 8, 150>> \o Framed(<<8, 150, 1>>) }

Inputs == RawInputs \cup {Framed(s) : s \in RawInputs} \cup HandInputs

(***************************************************************************)
(* The message class the streams are decoded with: field 1 is a uint32,    *)
(* field 2 a string, field 3 an embedded message of the same class; every  *)
(* other field is skipped.  Inputs of Message.Stream.                       *)
(***************************************************************************)
Dispatch(field) ==
  IF field = 1 THEN "Uint32"
  ELSE IF field = 2 THEN "String"
  ELSE IF field = 3 THEN "Message"
  ELSE "skipField"

\* Most frames in a stream.
MaxFrames == 2

\* Well-formed bodies of that class, each with the fields it holds: the
\* nesting depth, the field number, the type of the value and the value.
SampleMsgs ==
  { [body |-> <<8, 150, 1>>, fields |-> << <<0, 1, "number", B(150)>> >>],
    [body |-> <<18, 2, 104, 105>>, fields |-> << <<0, 2, "string", <<104, 105>> >> >>],
    [body |-> <<26, 3, 8, 150, 1, 8, 1>>,
     fields |-> << <<0, 3, "Message", <<>> >>, <<1, 1, "number", B(150)>>,
                   <<0, 1, "number", B(1)>> >>],
    [body |-> <<32, 5, 18, 0>>,
     fields |-> << <<0, 4, "void", <<>> >>, <<0, 2, "string", <<>> >> >>],
    [body |-> <<>>, fields |-> <<>>] }

SampleBodies == {m.body : m \in SampleMsgs}
Expected(body) == (CHOOSE m \in SampleMsgs : m.body = body).fields

RECURSIVE Concat(_)
Concat(ss) == IF ss = <<>> THEN <<>> ELSE Head(ss) \o Concat(Tail(ss))

\* The stream of the frames of the bodies bs.
StreamOf(bs) == Concat([k \in 1..Len(bs) |-> Framed(bs[k])])

BodyLists == UNION {[1..n -> SampleBodies] : n \in 1..MaxFrames}

\* Streams whose first frame declares fewer bytes than its last field takes:
\* a varint cut after its first byte, a string declared longer than the rest
\* of the frame.
CrossingStreams ==
  { <<0, 0, 0, 0, 2, 8, 150>> \o Framed(<<8, 150, 1>>),
    <<0, 0, 0, 0, 3, 18, 4, 104>> \o Framed(<<8, 150, 1>>) }

(***************************************************************************)
(* BinaryReader: the methods as state transitions.  Each leaves in op, ret *)
(* and failed what the caller observes, and in pre the reader it started   *)
(* from.  A throw ends the decode: nothing is called after it.             *)
(***************************************************************************)
NoEntry == [end0 |-> 0, at |-> 0, len |-> 0]

\* The value v that the call name has returned, as the pair of the two.
Returned(name, v) == <<name, v>>

\* The type of what the reader's method name returns.
TypeOf(name) ==
  CASE name = "Bool" -> "boolean"
    [] name = "String" -> "string"
    [] name = "Bytes" -> "Uint8Array"
    [] name = "PackedInt32" -> "Array"
    [] name = "skipField" -> "void"
    [] name = "Map" -> "entry"
    [] OTHER -> "number"

Pre ==
  [cursor |-> cursor, end |-> end, length |-> length, nextField |-> nextField,
   nextWireType |-> nextWireType, fresh |-> (op = "new"), depth |-> Len(calls),
   entry |-> IF entries = <<>> THEN NoEntry ELSE Head(entries)]

\* new BinaryReader(src)
NewReader(src) ==
  /\ bytes = src
  /\ end = Len(src)
  /\ cursor = 0
  /\ nextField = Undefined
  /\ nextWireType = Undefined
  /\ length = 0
  /\ calls = <<>>
  /\ entries = <<>>
  /\ op = "new"
  /\ failed = FALSE
  /\ ret = Returned("new", FALSE)
  /\ pre = [cursor |-> 0, end |-> Len(src), length |-> 0, nextField |-> Undefined,
            nextWireType |-> Undefined, fresh |-> TRUE, depth |-> 0,
            entry |-> NoEntry]

\* No writer and no round trip.
NoWriter ==
  /\ buffer = <<>>
  /\ marks = <<>>
  /\ wop = "none"
  /\ spliced = [bookmark |-> 0, written |-> 0, bytes |-> <<>>, closed |-> 0, writes |-> 0]
NoMap == <<"none", "none", <<>> >>
NoCodec == num = BZero /\ kind = "none" /\ map = NoMap

\* The client: e is the entry point, sch the message class, fs the bodies the
\* input was framed from.
NewClient(src, e, sch, fs) ==
  /\ NewReader(src)
  /\ entry = e
  /\ schema = sch
  /\ pc = IF e = "deserializeBinary" THEN "NextField" ELSE "Header"
  /\ msg = [from |-> 0, fields |-> <<>>]
  /\ arr = <<>>
  /\ frames = fs

\* Variant of AddLength that counts the body without its envelope; C5 does
\* not hold of it.
AddLengthBody(len, l, nan) ==
  IF nan \/ len = NaN THEN NaN ELSE len + BToInt(l)

\* this.length += l + 5
AddLength(len, l, nan) ==
  IF nan \/ len = NaN THEN NaN ELSE len + BToInt(BAdd(l, B(5)))

\* The client calls name next.
Calls(name) ==
  /\ ~failed
  /\ pc = (IF name \in {"Header", "NextField", "return"} THEN name ELSE "read")
  /\ (pc = "read" => (schema = "any" \/ Dispatch(nextField) = name))

\* Header(), called by Message.Unary (which ignores what it returns) and by
\* the loop of Message.Stream.
Header ==
  /\ Calls("Header")
  /\ pre' = Pre
  /\ op' = "Header"
  /\ IF cursor >= end
     THEN /\ ret' = Returned("Header", FALSE)
          /\ failed' = FALSE
          /\ UNCHANGED <<cursor, length>>
     ELSE LET h == HeaderLoop(bytes, cursor, end, BZero, FALSE, 0)
          IN /\ cursor' = h.cursor
             /\ failed' = h.err
             /\ IF h.err \/ (~h.nan /\ h.l = BZero)
                THEN ret' = Returned("Header", FALSE) /\ UNCHANGED length
                ELSE ret' = Returned("Header", TRUE)
                     /\ length' = AddLength(length, h.l, h.nan)
  /\ pc' = IF failed' THEN "done"
           ELSE IF entry = "Unary" \/ ret'[2] THEN "NextField"
           ELSE "done"
  /\ msg' = [from |-> cursor', fields |-> <<>>]
  /\ UNCHANGED <<bytes, end, nextField, nextWireType, calls, entries>>
  /\ UNCHANGED <<entry, schema, arr, frames, writerVars, codecVars>>

\* get NextField(), the condition of the deserializer's loop.
NextField ==
  /\ Calls("NextField")
  /\ pre' = Pre
  /\ op' = "NextField"
  /\ IF cursor >= end \/ cursor = length
     THEN /\ ret' = Returned("NextField", FALSE)
          /\ failed' = FALSE
          /\ UNCHANGED <<cursor, nextField, nextWireType>>
     ELSE LET tag == RdVarint32(bytes, cursor, end)
              field == BToInt(JsSar(tag.val, 3))
              type == BToInt(JsAnd(tag.val, B(7)))
          IN /\ cursor' = tag.cursor
             /\ IF tag.err \/ InvalidWireType(type)
                THEN /\ failed' = TRUE
                     /\ ret' = Returned("NextField", FALSE)
                     /\ UNCHANGED <<nextField, nextWireType>>
                ELSE /\ failed' = FALSE
                     /\ ret' = Returned("NextField", TRUE)
                     /\ nextField' = field
                     /\ nextWireType' = type
  /\ pc' = IF failed' THEN "done" ELSE IF ret'[2] THEN "read" ELSE "return"
  /\ UNCHANGED <<bytes, end, length, calls, entries>>
  /\ UNCHANGED <<entry, schema, msg, arr, frames, writerVars, codecVars>>

\* A method that only reads, called for the current field: r is what its
\* pure part yields, shown the value the deserializer keeps.
Read(name, r, shown) ==
  /\ Calls(name)
  /\ pre' = Pre
  /\ op' = name
  /\ cursor' = r.cursor
  /\ failed' = r.err
  /\ ret' = Returned(name, r.val)
  /\ pc' = IF r.err THEN "done" ELSE "NextField"
  /\ msg' = IF r.err THEN msg
            ELSE [msg EXCEPT !.fields = Append(@, <<Len(calls), nextField, TypeOf(name), shown>>)]
  /\ UNCHANGED <<bytes, end, nextField, nextWireType, length, calls, entries>>
  /\ UNCHANGED <<entry, schema, arr, frames, writerVars, codecVars>>

Typed(name, r) == Read(name, r, r.val)

skipField == Read("skipField", RdSkipField(bytes, cursor, end, nextWireType), <<>>)
Varint32 == Typed("Varint32", RdVarint32(bytes, cursor, end))
Varint ==
  \E s \in BOOLEAN :
    Typed(IF s THEN "Varint(true)" ELSE "Varint(false)", RdVarint(bytes, cursor, end, s))
Int32 == Typed("Int32", RdInt32(bytes, cursor, end, nextWireType))
Uint32 == Typed("Uint32", RdUint32(bytes, cursor, end, nextWireType))
Int64 == Typed("Int64", RdInt64(bytes, cursor, end, nextWireType))
Uint64 == Typed("Uint64", RdUint64(bytes, cursor, end, nextWireType))
Sint32 == Typed("Sint32", RdSint32(bytes, cursor, end, nextWireType))
Sint64 == Typed("Sint64", RdSint64(bytes, cursor, end, nextWireType))
Bool == Typed("Bool", RdBool(bytes, cursor, end, nextWireType))
Enum == Typed("Enum", RdEnum(bytes, cursor, end, nextWireType))
Fixed32 == Typed("Fixed32", RdFixed32(bytes, cursor, end, nextWireType))
String == Typed("String", RdString(bytes, cursor, end, nextWireType))
Bytes == Typed("Bytes", RdBytes(bytes, cursor, end, nextWireType))

\* PackedInt32 reads its elements with Varint32, whatever the wire type is.
PackedInt32 == Typed("PackedInt32", RdPackedInt32(bytes, cursor, end, nextWireType))

\* The [key, value] that Map returns, after the field types that tell what
\* its two values are.
Pair(kFT, vFT, k, v) == <<kFT, vFT, k, v>>

\* Map(kFT, vFT), called for the current field.  A Map that throws leaves
\* end and nextWireType as they were when it threw.
Map(kFT, vFT) ==
  /\ Calls("Map")
  /\ pre' = Pre
  /\ op' = "Map"
  /\ \E r \in {RdMap(bytes, cursor, end, nextWireType, kFT, vFT)} :
       /\ cursor' = r.cursor
       /\ end' = r.end
       /\ nextWireType' = r.wt
       /\ failed' = r.err
       /\ ret' = Returned("Map", IF r.err THEN Pair(kFT, vFT, <<>>, <<>>)
                                 ELSE Pair(kFT, vFT, r.key, r.val))
       /\ pc' = IF r.err THEN "done" ELSE "NextField"
       /\ msg' = IF r.err THEN msg
                 ELSE [msg EXCEPT !.fields = Append(@, <<Len(calls), nextField, TypeOf("Map"),
                                                        Pair(kFT, vFT, r.key, r.val)>>)]
  /\ UNCHANGED <<bytes, nextField, length, calls, entries>>
  /\ UNCHANGED <<entry, schema, arr, frames, writerVars, codecVars>>

\* Message(message), up to the call of message.deserializeBinaryFromReader.
MessageEnter(c, e, l) ==
  [cursor |-> l.cursor, end |-> l.cursor + BToInt(l.val),
   frame |-> [oEnd |-> e, nEnd |-> l.cursor + BToInt(l.val)]]

\* Variant of MessageExit that leaves the cursor where the embedded
\* deserializer stopped; C8 does not hold of it.
MessageExitStays(frame, c, e) == [cursor |-> c, end |-> frame.oEnd]

\* Message(message), after the embedded deserializer has returned.
MessageExit(frame, c, e) == [cursor |-> frame.nEnd, end |-> frame.oEnd]

Message ==
  /\ Calls("Message")
  /\ pre' = Pre
  /\ IF nextWireType = DELIMITED
     THEN LET l == RdVarint32(bytes, cursor, end)
          IN IF l.err
             THEN /\ op' = "Message"
                  /\ failed' = TRUE
                  /\ cursor' = l.cursor
                  /\ UNCHANGED <<end, calls, entries, msg>>
             ELSE LET m == MessageEnter(cursor, end, l)
                  IN /\ op' = "deserializeBinaryFromReader"
                     /\ failed' = FALSE
                     /\ cursor' = m.cursor
                     /\ end' = m.end
                     /\ calls' = <<m.frame>> \o calls
                     /\ entries' = <<[end0 |-> end, at |-> l.cursor, len |-> BToInt(l.val)]>>
                                     \o entries
                     /\ msg' = [msg EXCEPT
                                 !.fields = Append(@, <<Len(calls), nextField, "Message", <<>> >>)]
     ELSE /\ op' = "Message"
          /\ failed' = TRUE
          /\ UNCHANGED <<cursor, end, calls, entries, msg>>
  /\ ret' = Returned("Message", FALSE)
  /\ pc' = IF failed' THEN "done" ELSE "NextField"
  /\ UNCHANGED <<bytes, nextField, nextWireType, length>>
  /\ UNCHANGED <<entry, schema, arr, frames, writerVars, codecVars>>

\* The embedded deserializer returns (its NextField was false) and Message()
\* completes.
MessageReturn ==
  /\ Calls("return")
  /\ calls # <<>>
  /\ pre' = Pre
  /\ op' = "Message"
  /\ failed' = FALSE
  /\ ret' = Returned("Message", FALSE)
  /\ LET x == MessageExit(Head(calls), cursor, end)
     IN cursor' = x.cursor /\ end' = x.end
  /\ calls' = Tail(calls)
  /\ entries' = Tail(entries)
  /\ pc' = "NextField"
  /\ UNCHANGED <<bytes, nextField, nextWireType, length>>
  /\ UNCHANGED <<entry, schema, msg, arr, frames, writerVars, codecVars>>

\* The top-level deserializer returns: Message.Stream pushes the message and
\* calls Header again, Message.Unary and Message.deserializeBinary return.
Return ==
  /\ Calls("return")
  /\ calls = <<>>
  /\ arr' = Append(arr, [from |-> msg.from, to |-> cursor, fields |-> msg.fields])
  /\ pc' = IF entry = "Stream" THEN "Header" ELSE "done"
  /\ UNCHANGED <<readerVars, watchVars, entry, schema, msg, frames, writerVars, codecVars>>

(***************************************************************************)
(* Spec: a client that decodes any of the inputs through any of the three  *)
(* entry points, with a message class that may read each field with any    *)
(* of the reader's methods.                                                 *)
(***************************************************************************)
EntryPoints == {"deserializeBinary", "Unary", "Stream"}

Init ==
  /\ \E src \in Inputs, e \in EntryPoints : NewClient(src, e, "any", <<>>)
  /\ NoWriter
  /\ NoCodec

Next ==
  \/ Header
  \/ NextField
  \/ skipField
  \/ Varint32
  \/ Varint
  \/ Int32
  \/ Uint32
  \/ Int64
  \/ Uint64
  \/ Sint32
  \/ Sint64
  \/ Bool
  \/ Enum
  \/ Fixed32
  \/ String
  \/ Bytes
  \/ PackedInt32
  \/ Message
  \/ MessageReturn
  \/ Return

Spec == Init /\ [][Next]_vars

(***************************************************************************)
(* SpecStream: Message.Stream over a stream of frames, with the message    *)
(* class of Dispatch.                                                       *)
(***************************************************************************)
InitStream ==
  /\ \/ \E bs \in BodyLists, term \in BOOLEAN :
          NewClient(StreamOf(bs) \o (IF term THEN Envelope(0) ELSE <<>>), "Stream", "T", bs)
     \/ \E src \in CrossingStreams : NewClient(src, "Stream", "T", <<>>)
  /\ NoWriter
  /\ NoCodec

NextStream ==
  \/ Header
  \/ NextField
  \/ Uint32
  \/ String
  \/ Message
  \/ MessageReturn
  \/ skipField
  \/ Return

\* The loop of Message.Stream has not ended: that is when it has a next step.
Running == pc # "done"

\* Message.Stream is one synchronous call: once entered it runs each step of
\* its loops in turn, and nothing else can hold it up.  This is the weak
\* fairness of NextStream, with Running for what enables a step.
FairStream == (<>[]Running) => []<><<NextStream>>_vars

SpecStream == InitStream /\ [][NextStream]_vars /\ FairStream

(***************************************************************************)
(* BinaryWriter: the methods as state transitions on the encoder's buffer. *)
(* marks holds, for each delimited scope that Message() has open, its      *)
(* bookmark and the number of elements pushed inside it so far.            *)
(***************************************************************************)
\* No reader at work.
NoClient ==
  /\ NewReader(<<>>)
  /\ entry = "none"
  /\ schema = "none"
  /\ pc = "done"
  /\ msg = [from |-> 0, fields |-> <<>>]
  /\ arr = <<>>
  /\ frames = <<>>

\* Most writes on one writer.
MaxWrites == 3
\* Most delimited scopes open at once.
MaxDepth == 2

\* A string of n times U+1F600, a surrogate pair that takes four bytes.
Faces(n) == [i \in 1..(2 * n) |-> IF i % 2 = 1 THEN 55357 ELSE 56832]

\* Strings written: empty, a, e acute, the euro sign, and strings of 127
\* and of 128 bytes.
Strings ==
  {<<>>, <<97>>, <<233>>, <<8364>>, Faces(31) \o <<97, 97, 97>>, Faces(32)}

\* Field numbers written: a one-byte and a two-byte tag.
Fields == {1, 16}

\* k more elements inside every open scope.
Pushed(ms, k) == [i \in 1..Len(ms) |-> [ms[i] EXCEPT !.written = @ + k]]

\* The writes so far: every call but the return of a Message() counts.
Writes == spliced.writes

\* A write that appends the elements es.
Write(name, es) ==
  /\ Writes < MaxWrites
  /\ wop' = name
  /\ buffer' = buffer \o es
  /\ marks' = Pushed(marks, Len(es))
  /\ spliced' = [spliced EXCEPT !.writes = @ + 1]
  /\ UNCHANGED <<readerVars, watchVars, clientVars, codecVars>>

\* A write that opens a scope with the tag, appends the payload and closes
\* the scope: beginDelimited(field), the payload, endDelimited(bookmark).
WriteDelimited(name, tag, payload) ==
  /\ Writes < MaxWrites
  /\ wop' = name
  /\ buffer' = EndDelimited(buffer \o tag \o payload, Len(buffer) + Len(tag))
  /\ spliced' = [bookmark |-> Len(buffer) + Len(tag),
                 written |-> Len(payload),
                 bytes |-> EndDelimitedBytes(Len(buffer \o tag \o payload)
                                               - (Len(buffer) + Len(tag))),
                 closed |-> spliced.closed + 1,
                 writes |-> spliced.writes + 1]
  /\ marks' = Pushed(marks, Len(buffer') - Len(buffer))
  /\ UNCHANGED <<readerVars, watchVars, clientVars, codecVars>>

WriterUint32 ==
  \E value \in {1, 150} : Write("Uint32", WrTag(1, VARINT) \o EncUnsignedVarint32(B(value)))

WriterInt32 ==
  \E value \in {0 - 1, 300} : Write("Int32", WrTag(1, VARINT) \o EncVarint32(B(value)))

WriterBytes ==
  \E value \in {<<>>, <<0, 255>>} :
    Write("Bytes", WrTag(4, DELIMITED) \o EncUnsignedVarint32(B(Len(value))) \o value)

WriterString ==
  \E value \in Strings : WriteDelimited("String", WrTag(2, DELIMITED), EncString(value))

WriterPackedInt32 ==
  \E value \in {<<>>, <<B(3), B(270), B(0 - 1)>>} :
    WriteDelimited("PackedInt32", WrTag(5, DELIMITED), WrPackedInt32Loop(value, 0))

\* Message(field, value), up to the call of value.serializeBinaryToWriter.
WriterMessage ==
  /\ Writes < MaxWrites
  /\ Len(marks) < MaxDepth
  /\ \E field \in Fields :
       /\ buffer' = buffer \o WrTag(field, DELIMITED)
       /\ marks' = <<[bookmark |-> Len(buffer'), written |-> 0]>>
                     \o Pushed(marks, Len(WrTag(field, DELIMITED)))
  /\ wop' = "beginDelimited"
  /\ spliced' = [spliced EXCEPT !.writes = @ + 1]
  /\ UNCHANGED <<readerVars, watchVars, clientVars, codecVars>>

\* value.serializeBinaryToWriter has returned and Message() ends the scope.
WriterMessageEnd ==
  /\ marks # <<>>
  /\ wop' = "endDelimited"
  /\ buffer' = EndDelimited(buffer, Head(marks).bookmark)
  /\ spliced' = [bookmark |-> Head(marks).bookmark,
                 written |-> Head(marks).written,
                 bytes |-> EndDelimitedBytes(Len(buffer) - Head(marks).bookmark),
                 closed |-> spliced.closed + 1,
                 writes |-> spliced.writes]
  /\ marks' = Pushed(Tail(marks), Len(buffer') - Len(buffer))
  /\ UNCHANGED <<readerVars, watchVars, clientVars, codecVars>>

InitWriter ==
  /\ NoClient
  /\ NoWriter
  /\ NoCodec

NextWriter ==
  \/ WriterUint32
  \/ WriterInt32
  \/ WriterBytes
  \/ WriterString
  \/ WriterPackedInt32
  \/ WriterMessage
  \/ WriterMessageEnd

SpecWriter == InitWriter /\ [][NextWriter]_vars

(***************************************************************************)
(* SpecRange: the writes of BinaryWriter that test the range of the value. *)
(***************************************************************************)
\* Most range-tested writes on one writer.
MaxRanged == 2

\* The values on either side of the two ends of [lo, hi).
Around(lo, hi) == {BSub(lo, B(1)), lo, BSub(hi, B(1)), hi}

\* writer.<name>(1, value): w is what the write does.
WriteGuarded(name, value, w) ==
  /\ Writes < MaxRanged
  /\ wop' = name
  /\ num' = value
  /\ failed' = w.threw
  /\ buffer' = buffer \o w.es
  /\ marks' = Pushed(marks, Len(w.es))
  /\ spliced' = [spliced EXCEPT !.writes = @ + 1]
  /\ UNCHANGED <<readerVars, op, ret, pre, entries, clientVars, kind, map>>

RangedInt32 ==
  \E v \in Around(BNeg(TWO_TO_31), TWO_TO_31) : WriteGuarded("Int32", v, WrInt32(1, v))
RangedInt64 ==
  \E v \in Around(BNeg(TWO_TO_63), TWO_TO_63) : WriteGuarded("Int64", v, WrInt64(1, v))
RangedUint32 ==
  \E v \in Around(B(0), TWO_TO_32) : WriteGuarded("Uint32", v, WrUint32(1, v))
RangedUint64 ==
  \E v \in Around(B(0), TWO_TO_63) : WriteGuarded("Uint64", v, WrUint64(1, v))
RangedSint32 ==
  \E v \in Around(BNeg(TWO_TO_31), TWO_TO_31) : WriteGuarded("Sint32", v, WrSint32(1, v))
RangedSint64 ==
  \E v \in Around(BNeg(TWO_TO_63), TWO_TO_63) : WriteGuarded("Sint64", v, WrSint64(1, v))
RangedFixed32 ==
  \E v \in Around(B(0), TWO_TO_32) : WriteGuarded("Fixed32", v, WrFixed32(1, v))
RangedFixed64 ==
  \E v \in Around(B(0), TWO_TO_64) : WriteGuarded("Fixed64", v, WrFixed64(1, v))
RangedSfixed32 ==
  \E v \in Around(BNeg(TWO_TO_31), TWO_TO_31) : WriteGuarded("Sfixed32", v, WrSfixed32(1, v))
RangedSfixed64 ==
  \E v \in Around(BNeg(TWO_TO_63), TWO_TO_63) : WriteGuarded("Sfixed64", v, WrSfixed64(1, v))

NextRange ==
  \/ RangedInt32
  \/ RangedInt64
  \/ RangedUint32
  \/ RangedUint64
  \/ RangedSint32
  \/ RangedSint64
  \/ RangedFixed32
  \/ RangedFixed64
  \/ RangedSfixed32
  \/ RangedSfixed64

SpecRange == InitWriter /\ [][NextRange]_vars

(***************************************************************************)
(* SpecCodec: a number is encoded by the BinaryEncoder, the buffer is      *)
(* turned into a Uint8Array and a BinaryReader decodes it.                 *)
(***************************************************************************)
\* Integers of small magnitude that are encoded.
MaxSmall == 150

\* 2^k as a bit vector.
Pow2(k) == BShl(B(1), k)

\* int32 values: the small ones, and those around the powers of two.
Int32Samples ==
  {B(n) : n \in (0 - MaxSmall)..MaxSmall}
    \cup {Pow2(k) : k \in 0..30}
    \cup {BSub(Pow2(k), B(1)) : k \in 0..31}
    \cup {BNeg(Pow2(k)) : k \in 0..31}
    \cup {BSub(BNeg(Pow2(k)), B(1)) : k \in 0..30}

\* uint64 values.
Uint64Samples ==
  {B(n) : n \in 0..MaxSmall}
    \cup {Pow2(k) : k \in 0..63}
    \cup {BSub(Pow2(k), B(1)) : k \in 0..64}

\* int64 values.
Int64Samples ==
  {B(n) : n \in (0 - MaxSmall)..MaxSmall}
    \cup {Pow2(k) : k \in 0..62}
    \cup {BSub(Pow2(k), B(1)) : k \in 0..63}
    \cup {BNeg(Pow2(k)) : k \in 0..63}
    \cup {BSub(BNeg(Pow2(k)), B(1)) : k \in 0..62}

\* uint32 values.
Uint32Samples ==
  {B(n) : n \in 0..MaxSmall}
    \cup {Pow2(k) : k \in 0..31}
    \cup {BSub(Pow2(k), B(1)) : k \in 0..32}
    \cup {BAdd(BShl(B(57005), 16), B(48879))}

\* encoder.<name>(n) on a new encoder: es is what it pushes.
Encode(name, n, es) ==
  /\ kind = "none"
  /\ kind' = name
  /\ num' = n
  /\ buffer' = buffer \o es
  /\ UNCHANGED <<readerVars, watchVars, clientVars, marks, wop, spliced, map>>

EncodeVarint32 == \E n \in Int32Samples : Encode("Varint32", n, EncVarint32(n))
EncodeUnsignedVarint == \E n \in Uint64Samples : Encode("UnsignedVarint", n, EncUnsignedVarint(n))
EncodeVarint == \E n \in Int64Samples : Encode("Varint", n, EncVarint(n))
EncodeZigzag32 == \E n \in Int32Samples : Encode("Zigzag32", n, EncZigzag32(n))
EncodeZigzag64 == \E n \in Int64Samples : Encode("Zigzag64", n, EncZigzag64(n))
EncodeFixed32 == \E n \in Uint32Samples : Encode("Fixed32", n, EncFixed32(n))
EncodeFixed64 == \E n \in Uint64Samples : Encode("Fixed64", n, EncFixed64(n))

\* new BinaryReader(new Uint8Array(buffer)).<name>(): r is what the read
\* yields on those bytes.
Decode(encoded, name, r) ==
  /\ kind = encoded
  /\ op = "new"
  /\ bytes' = ToUint8Array(buffer)
  /\ end' = Len(buffer)
  /\ op' = name
  /\ cursor' = r.cursor
  /\ failed' = r.err
  /\ ret' = Returned(name, r.val)
  /\ UNCHANGED <<nextField, nextWireType, length, calls, pre, entries>>
  /\ UNCHANGED <<clientVars, writerVars, codecVars>>

DecodeVarint32 ==
  Decode("Varint32", "Varint32", RdVarint32(ToUint8Array(buffer), 0, Len(buffer)))
DecodeUnsignedVarint ==
  Decode("UnsignedVarint", "Varint(false)", RdVarint(ToUint8Array(buffer), 0, Len(buffer), FALSE))
DecodeVarint ==
  Decode("Varint", "Varint(true)", RdVarint(ToUint8Array(buffer), 0, Len(buffer), TRUE))

\* The same for a read that tests the current wire type: the read is made
\* for a field of wire type wt.
DecodeTyped(encoded, name, wt, r) ==
  /\ kind = encoded
  /\ op = "new"
  /\ bytes' = ToUint8Array(buffer)
  /\ end' = Len(buffer)
  /\ nextWireType' = wt
  /\ op' = name
  /\ cursor' = r.cursor
  /\ failed' = r.err
  /\ ret' = Returned(name, r.val)
  /\ UNCHANGED <<nextField, length, calls, pre, entries>>
  /\ UNCHANGED <<clientVars, writerVars, codecVars>>

DecodeSint32 ==
  DecodeTyped("Zigzag32", "Sint32", VARINT,
              RdSint32(ToUint8Array(buffer), 0, Len(buffer), VARINT))
DecodeSint64 ==
  DecodeTyped("Zigzag64", "Sint64", VARINT,
              RdSint64(ToUint8Array(buffer), 0, Len(buffer), VARINT))
DecodeFixed32 ==
  DecodeTyped("Fixed32", "Fixed32", FIXED32,
              RdFixed32(ToUint8Array(buffer), 0, Len(buffer), FIXED32))
DecodeFixed64 ==
  DecodeTyped("Fixed64", "Fixed64", FIXED64,
              RdFixed64(ToUint8Array(buffer), 0, Len(buffer), FIXED64))

InitCodec ==
  /\ NoClient
  /\ NoWriter
  /\ NoCodec

NextCodec ==
  \/ EncodeVarint32
  \/ EncodeUnsignedVarint
  \/ EncodeVarint
  \/ EncodeZigzag32
  \/ EncodeZigzag64
  \/ EncodeFixed32
  \/ EncodeFixed64
  \/ DecodeVarint32
  \/ DecodeUnsignedVarint
  \/ DecodeVarint
  \/ DecodeSint32
  \/ DecodeSint64
  \/ DecodeFixed32
  \/ DecodeFixed64

SpecCodec == InitCodec /\ [][NextCodec]_vars

(***************************************************************************)
(* SpecMap: a map is written by BinaryWriter.Map on a new writer, the      *)
(* result is framed and handed to Message.Unary, and the generated         *)
(* deserializer reads each entry with BinaryReader.Map.                    *)
(***************************************************************************)
\* The key types Map has a case for, and those it has none for.
KeyTypes ==
  {"INT32", "INT64", "UINT32", "UINT64", "SINT32", "SINT64", "FIXED32", "FIXED64",
   "SFIXED32", "SFIXED64", "BOOL", "ENUM", "STRING"}
BadKeyTypes == {"DOUBLE", "FLOAT", "BYTES", "MESSAGE", "GROUP", "INVALID"}

\* The value types written: all but DOUBLE, FLOAT and MESSAGE.
ValueTypes == KeyTypes \cup {"BYTES"}

\* Values of the domain of a field type; for a type that has no key domain,
\* a key all the same.
ValuesOf(ft) ==
  CASE ft \in {"INT32", "SINT32", "SFIXED32", "ENUM"} -> {B(0 - 1), B(300)}
    [] ft \in {"UINT32", "FIXED32"} -> {B(1), BSub(Pow2(32), B(1))}
    [] ft \in {"INT64", "SINT64", "SFIXED64"} -> {B(1), BNeg(Pow2(63))}
    [] ft \in {"UINT64", "FIXED64"} -> {B(1), Pow2(40)}
    [] ft = "BOOL" -> BOOLEAN
    [] ft = "STRING" -> {<<>>, <<104, 233>>}
    [] ft = "BYTES" -> {<<>>, <<0, 255>>}
    [] OTHER -> {B(1)}

\* The maps of those keys and values: no entry, one entry, two entries of
\* different keys and one value.
MapsOf(kFT, vFT) ==
  {<<>>}
    \cup {<< <<k, v>> >> : k \in ValuesOf(kFT), v \in ValuesOf(vFT)}
    \cup {<< <<k[1], v>>, <<k[2], v>> >> :
            k \in {x \in ValuesOf(kFT) \X ValuesOf(kFT) : x[1] # x[2]},
            v \in ValuesOf(vFT)}

\* writer.Map(1, value, kFT, vFT) on a new writer.
WriterMap ==
  /\ wop = "none"
  /\ \E kFT \in KeyTypes \cup BadKeyTypes, vFT \in ValueTypes :
       \E value \in MapsOf(kFT, vFT) :
         \E w \in {WrMap(<<>>, 1, value, kFT, vFT, 1)} :
           /\ buffer' = w.buf
           /\ failed' = w.threw
           /\ map' = <<kFT, vFT, value>>
           /\ marks' = IF w.closed THEN <<>>
                       ELSE <<[bookmark |-> Len(WrTag(1, DELIMITED)),
                               written |-> Len(w.buf) - Len(WrTag(1, DELIMITED))]>>
  /\ wop' = "Map"
  /\ kind' = "Map"
  /\ spliced' = [spliced EXCEPT !.writes = @ + 1]
  /\ UNCHANGED <<readerVars, op, ret, pre, entries, clientVars, num>>

\* Message.Unary over the frame of what the writer holds.
UnaryOfWritten ==
  /\ kind \in {"Map", "Tag"}
  /\ ~failed
  /\ entry = "none"
  /\ bytes' = Framed(ToUint8Array(buffer))
  /\ end' = Len(buffer) + 5
  /\ entry' = "Unary"
  /\ schema' = "any"
  /\ pc' = "Header"
  /\ UNCHANGED <<cursor, nextField, nextWireType, length, calls, watchVars>>
  /\ UNCHANGED <<msg, arr, frames, writerVars, codecVars>>

\* The deserializer reads the entry with the field types the map was
\* written with, or with a key type Map has no case for.
MapAsRead == \E kFT \in {map[1]} \cup BadKeyTypes : Map(kFT, map[2])

InitMap ==
  /\ NoClient
  /\ NoWriter
  /\ NoCodec

NextMap ==
  \/ WriterMap
  \/ UnaryOfWritten
  \/ Header
  \/ NextField
  \/ MapAsRead
  \/ Return

SpecMap == InitMap /\ [][NextMap]_vars

(***************************************************************************)
(* SpecSkip: a client whose message class knows no field: its deserializer *)
(* is the loop  while (reader.NextField) reader.skipField().               *)
(***************************************************************************)
\* The most fields the loop is followed through.
MaxSkips == 4

\* Frames whose only field is length-delimited, its length written as a
\* six-byte varint: -1, -7 and 1 (the last byte of the frame its payload).
SkipInputs ==
  { Framed(<<10, 255, 255, 255, 255, 143, 0>>),
    Framed(<<10, 249, 255, 255, 255, 143, 0>>),
    Framed(<<10, 129, 128, 128, 128, 128, 0, 7>>) }

\* One turn of the loop: the field that NextField announced is skipped.
SkipUnknown ==
  /\ Len(msg.fields) < MaxSkips
  /\ skipField

InitSkip ==
  /\ \E src \in Inputs \cup SkipInputs, e \in {"deserializeBinary", "Unary"} :
       NewClient(src, e, "any", <<>>)
  /\ NoWriter
  /\ NoCodec

NextSkip ==
  \/ Header
  \/ NextField
  \/ SkipUnknown
  \/ Return

SpecSkip == InitSkip /\ [][NextSkip]_vars

(***************************************************************************)
(* SpecTag: Tag(field, wireType) of src/writer.ts on a new writer, and the  *)
(* NextField of src/reader.ts over the frame of what it wrote.             *)
(***************************************************************************)
\* The field numbers written: the two sides of each length of the varint of
\* the tag, and the two ends of [1, 2^29).
TagFields == {1, 15, 16, 2047, 2048, 2^18 - 1, 2^18, 2^25 - 1, 2^25, 2^28 - 1, 2^28, 2^29 - 1}

\* writer.Tag(field, wireType) on a new writer.
WriterTag ==
  /\ wop = "none"
  /\ \E field \in TagFields, wireType \in {VARINT, FIXED64, DELIMITED, FIXED32} :
       /\ buffer' = WrTag(field, wireType)
       /\ num' = B(field)
  /\ failed' = FALSE
  /\ wop' = "Tag"
  /\ kind' = "Tag"
  /\ spliced' = [spliced EXCEPT !.writes = @ + 1]
  /\ UNCHANGED <<readerVars, op, ret, pre, entries, clientVars, map, marks>>

NextTag ==
  \/ WriterTag
  \/ UnaryOfWritten
  \/ Header
  \/ NextField

SpecTag == InitMap /\ [][NextTag]_vars

(***************************************************************************)
(* The claims.                                                              *)
(***************************************************************************)
\* C1 (SpecWriter): whenever endDelimited has closed a delimited scope, the
\* elements it spliced in at the bookmark are the complete unsigned varint
\* of the number of elements pushed inside the scope (those of inner scopes
\* and their lengths included), below 128 and from 128 on alike.
C1_SplicedLengthIsVarint ==
  spliced.closed > 0 => spliced.bytes = EncUnsignedVarint32(B(spliced.written))

\* C2 (Spec): on a new reader over a non-empty buffer that starts with a
\* one-byte tag of a legal wire type, the first NextField, called with no
\* Header before it, returns true and stores the field number and the wire
\* type of that tag.
C2_FirstNextFieldReadsTag ==
  (/\ op = "NextField"
   /\ pre.fresh
   /\ bytes # <<>>
   /\ bytes[1] < 128
   /\ (bytes[1] % 8) \in {VARINT, FIXED64, DELIMITED, FIXED32})
    => (ret[2] = TRUE /\ nextField = bytes[1] \div 8 /\ nextWireType = bytes[1] % 8)

\* The wire type of the tag that a NextField found at pre.cursor.
TagTypeRead == BToInt(JsAnd(RdVarint32(bytes, pre.cursor, pre.end).val, B(7)))

\* The last call was a NextField that decoded a tag.
TagWasRead ==
  /\ op = "NextField"
  /\ pre.cursor < pre.end
  /\ pre.cursor # pre.length
  /\ ~RdVarint32(bytes, pre.cursor, pre.end).err

\* C3 (Spec): a NextField that decodes a tag of wire type 3, 4, 6 or 7 fails
\* and leaves the reader's current field and current wire type as they were.
C3_InvalidWireTypeRejected ==
  (TagWasRead /\ TagTypeRead \in {START_GROUP, END_GROUP, 6, 7})
    => (failed /\ nextField = pre.nextField /\ nextWireType = pre.nextWireType)

\* C4 (SpecStream): while a message of a stream is decoded, a NextField
\* called with the cursor at or past stream_length returns false and reads
\* nothing, also when the last field has carried the cursor past it.
C4_NextFieldStopsAtEnvelopeEnd ==
  (entry = "Stream" /\ op = "NextField" /\ pre.cursor >= pre.length)
    => (~failed /\ ret[2] = FALSE /\ cursor = pre.cursor)

\* Where the body of frame k starts in the stream of frames.
BodyStart(k) == Len(StreamOf(SubSeq(frames, 1, k - 1))) + 5

\* Message k as Message.Stream must have decoded it.
FrameDecoded(k) ==
  [from |-> BodyStart(k), to |-> BodyStart(k) + Len(frames[k]),
   fields |-> Expected(frames[k])]

\* The messages decoded so far are those of the first frames, each from its
\* own bytes; every Header after the first is called with the cursor at
\* stream_length; nothing throws; and the loop ends, on a Header that returns
\* false, with one message per frame.
StreamDecodes ==
  /\ ~failed
  /\ (op = "Header" /\ pre.cursor > 0) => pre.cursor = pre.length
  /\ Len(arr) <= Len(frames)
  /\ \A k \in 1..Len(arr) : k <= Len(frames) => arr[k] = FrameDecoded(k)
  /\ pc = "done" => (Len(arr) = Len(frames) /\ op = "Header" /\ ret[2] = FALSE)

NonEmptyBodies == \A k \in 1..Len(frames) : frames[k] # <<>>

\* C5 as stated (SpecStream): for the stream of N >= 1 well-formed frames,
\* with or without an all-zero envelope after them, the loop of
\* Message.Stream decodes exactly the N messages in order, each from its own
\* body, and then terminates.
C5_StreamDecodesEveryFrame ==
  /\ [](frames # <<>> => StreamDecodes)
  /\ (frames # <<>>) ~> (pc = "done")

\* C5, amended (SpecStream): the same for the stream of N >= 1 well-formed
\* frames whose bodies are all non-empty.
C5_StreamDecodesNonEmptyFrames ==
  /\ []((frames # <<>> /\ NonEmptyBodies) => StreamDecodes)
  /\ (frames # <<>> /\ NonEmptyBodies) ~> (pc = "done")

C5_Witness ==
  /\ Len(frames) = 2
  /\ NonEmptyBodies
  /\ pc = "done"
  /\ Len(arr) = 2
  /\ Len(arr[2].fields) = 3
  /\ cursor = Len(bytes)
  /\ Len(bytes) > length

\* The five bytes at c read as one big-endian unsigned integer.
BigEndian5(b, c) ==
  BAdd(BShl(NumOf(ByteAt(b, c)), 32),
       BAdd(BShl(NumOf(ByteAt(b, c + 1)), 24),
            BAdd(BShl(NumOf(ByteAt(b, c + 2)), 16),
                 BAdd(BShl(NumOf(ByteAt(b, c + 3)), 8), NumOf(ByteAt(b, c + 4))))))

\* C6 (Spec): a Header that reads an envelope takes its five bytes as one
\* big-endian unsigned integer L: it returns false and leaves stream_length
\* when L is 0, and otherwise returns true and adds exactly L + 5.
C6_HeaderReadsFortyBits ==
  (op = "Header" /\ ~failed /\ pre.cursor < pre.end)
    => IF BigEndian5(bytes, pre.cursor) = BZero
       THEN ret[2] = FALSE /\ length = pre.length
       ELSE ret[2] = TRUE /\ B(length - pre.length) = BAdd(BigEndian5(bytes, pre.cursor), B(5))

\* C7 (Spec): after every reader operation that returns without an error,
\* cursor <= end.
C7_CursorWithinEnd ==
  (op \notin {"new", "deserializeBinaryFromReader"} /\ ~failed) => cursor <= end

\* C8 (Spec): when Message() returns without an error, end is what it was
\* before the call and the cursor is the position just after the length
\* varint plus the declared length, wherever the embedded deserializer
\* stopped.
C8_MessageRestoresEnd ==
  (op = "Message" /\ ~failed)
    => (end = pre.entry.end0 /\ cursor = pre.entry.at + pre.entry.len)

\* A Message() has returned whose embedded deserializer stopped before the
\* declared end.
C8_Witness ==
  /\ op = "Message"
  /\ ~failed
  /\ pre.entry.len > 0
  /\ pre.cursor < pre.entry.at + pre.entry.len
  /\ cursor = pre.entry.at + pre.entry.len

\* C9 (SpecCodec): the elements pushed by the encoder's Varint32(n), as
\* octets, are decoded by the reader's Varint32 to n, the cursor advancing by
\* the number of elements pushed.
C9_Varint32RoundTrip ==
  (kind = "Varint32" /\ op = "Varint32")
    => (~failed /\ ret[2] = num /\ cursor = Len(buffer))

\* -2^31 has made the round trip, in six bytes.
C9_Witness ==
  /\ kind = "Varint32"
  /\ op = "Varint32"
  /\ num = BNeg(Pow2(31))
  /\ Len(buffer) = 6
  /\ cursor = 6

\* C10 (SpecCodec): UnsignedVarint(n) then Varint(false), and Varint(n) then
\* Varint(true), return n, the reader consuming exactly the 1 to 10 bytes
\* the encoder pushed.
C10_Varint64RoundTrip ==
  (\/ (kind = "UnsignedVarint" /\ op = "Varint(false)")
   \/ (kind = "Varint" /\ op = "Varint(true)"))
    => (~failed /\ ret[2] = num /\ cursor = Len(buffer) /\ Len(buffer) \in 1..10)

\* -2^63 has made the round trip, in ten bytes.
C10_Witness ==
  /\ kind = "Varint"
  /\ op = "Varint(true)"
  /\ num = BNeg(Pow2(63))
  /\ Len(buffer) = 10
  /\ cursor = 10

\* C11 (SpecCodec): the elements pushed by the encoder's Zigzag32(n) are
\* decoded by the reader's Sint32 to n, for every int32 n, and those pushed by
\* Zigzag64(n) are decoded by Sint64 to n, for every int64 n, the two ends of
\* each range included.
C11_ZigzagRoundTrip ==
  (\/ (kind = "Zigzag32" /\ op = "Sint32")
   \/ (kind = "Zigzag64" /\ op = "Sint64"))
    => (~failed /\ ret[2] = num)

\* -2^63 has made the round trip through Zigzag64 and Sint64, in ten bytes.
C11_Witness ==
  /\ kind = "Zigzag64"
  /\ op = "Sint64"
  /\ num = BNeg(Pow2(63))
  /\ Len(buffer) = 10
  /\ ~failed
  /\ ret[2] = num

\* Octet i of u, counted from the least significant, and the n octets of u in
\* little-endian order.
Octet(u, i) == BToInt(BAnd(BSar(u, 8 * i), B(255)))
LittleEndian(u, n) == [i \in 1..n |-> Octet(u, i - 1)]

\* C12 (SpecCodec): the four elements pushed by Fixed32(u), u in [0, 2^32),
\* are the octets of u in little-endian order, and the reader's Fixed32 over
\* them returns u as an unsigned value.
C12_Fixed32RoundTrip ==
  (kind = "Fixed32" /\ op = "Fixed32")
    => (/\ buffer = LittleEndian(num, 4)
        /\ ~failed
        /\ ret[2] = num
        /\ cursor = 4)

\* C13 (SpecCodec): Fixed64(u), u in [0, 2^64), pushes exactly eight
\* elements, element i being the octet (u >> 8i) mod 256, and the reader's
\* Fixed64 over them returns u as an unsigned value.
C13_Fixed64RoundTrip ==
  (kind = "Fixed64" /\ op = "Fixed64")
    => (/\ Len(buffer) = 8
        /\ \A i \in 1..8 : Fixed64Numbers(num)[i] = B(Octet(num, i - 1))
        /\ ~failed
        /\ ret[2] = num
        /\ cursor = 8)

\* C14 (SpecCodec): for a negative int32 v, Varint32(v) pushes exactly ten
\* bytes, the same ten that Varint(v) pushes, the last of them 0x01.
C14_NegativeVarint32IsTenBytes ==
  (kind = "Varint32" /\ BIsNeg(num))
    => (/\ Len(buffer) = 10
        /\ ToUint8Array(buffer) = ToUint8Array(EncVarint(num))
        /\ ToUint8Array(buffer)[Len(buffer)] = 1)

\* The reads of a 64-bit varint.
VarintReads == {"Varint(true)", "Varint(false)"}

\* The nine bytes the last read started at all carry the continuation bit,
\* and the tenth is 2 or more.
TenthByteOverflows ==
  /\ \A i \in 0..8 : IsGe128(ByteAt(bytes, pre.cursor + i))
  /\ ByteAt(bytes, pre.cursor + 9) # Undefined
  /\ ByteAt(bytes, pre.cursor + 9) >= 2

\* C15 (Spec): a Varint(s) that returns without an error has moved the
\* cursor by 1 to 10 bytes, and a Varint(s) over nine continuation bytes and a
\* tenth byte of 2 or more fails.
C15_VarintConsumesOneToTen ==
  (op \in VarintReads)
    => (/\ ~failed => (cursor - pre.cursor) \in 1..10
        /\ TenthByteOverflows => failed)

\* Varint over 80 80 80 80 80 80 80 80 80 02 has failed.
C15_Witness ==
  /\ op \in VarintReads
  /\ TenthByteOverflows
  /\ [i \in 1..10 |-> ByteAt(bytes, pre.cursor + i - 1)]
       = <<128, 128, 128, 128, 128, 128, 128, 128, 128, 2>>
  /\ failed

\* The ten bytes the last read started at all carry the continuation bit.
TenContinued == \A i \in 0..9 : IsGe128(ByteAt(bytes, pre.cursor + i))

\* C16 (Spec): a Varint32 that returns without an error has moved the cursor
\* by 1 to 10 bytes, the last of them the first one without a continuation
\* bit; a Varint32 over ten bytes that all carry the continuation bit fails,
\* the cursor no more than ten bytes further.
C16_Varint32StopsAtLastByte ==
  (op = "Varint32")
    => (/\ ~failed =>
             (/\ (cursor - pre.cursor) \in 1..10
              /\ IsLt128(ByteAt(bytes, cursor - 1))
              /\ \A i \in pre.cursor..(cursor - 2) : IsGe128(ByteAt(bytes, i)))
        /\ TenContinued => (failed /\ cursor - pre.cursor <= 10))

\* value lies in [lo, hi).
Within(value, lo, hi) == BGe(value, lo) /\ BLt(value, hi)

\* The declared domain of the field type a writer operation writes.
Declared(name, value) ==
  CASE name \in {"Int32", "Sint32", "Sfixed32"} -> Within(value, BNeg(Pow2(31)), Pow2(31))
    [] name \in {"Int64", "Sint64", "Sfixed64"} -> Within(value, BNeg(Pow2(63)), Pow2(63))
    [] name \in {"Uint32", "Fixed32"} -> Within(value, B(0), Pow2(32))
    [] name = "Uint64" -> Within(value, B(0), Pow2(63))
    [] name = "Fixed64" -> Within(value, B(0), Pow2(64))

C18_Sint64OutOfRangeThrows ==
  (wop = "Sint64" /\ ~Declared("Sint64", num)) => failed

\* C19 (SpecRange): a Fixed32 write of a value outside [0, 2^32), and a
\* Fixed64 write of a value outside [0, 2^64), throws and leaves the buffer as
\* it was.
C19_FixedOutOfRangeThrows ==
  [][(wop' \in {"Fixed32", "Fixed64"} /\ ~Declared(wop', num'))
       => (failed' /\ buffer' = buffer)]_vars

\* The number of bytes of the varint that starts at c, at most ten; 0 when
\* there is no such varint.
VarintLen(b, c) ==
  IF \E n \in 1..10 : IsLt128(ByteAt(b, c + n - 1))
                        /\ \A i \in 0..(n - 2) : IsGe128(ByteAt(b, c + i))
  THEN CHOOSE n \in 1..10 : IsLt128(ByteAt(b, c + n - 1))
                              /\ \A i \in 0..(n - 2) : IsGe128(ByteAt(b, c + i))
  ELSE 0

\* The value of the n-byte varint at c: seven bits a byte, the low ones first.
RECURSIVE VarintValue(_, _, _)
VarintValue(b, c, n) ==
  IF n = 0 THEN BZero
  ELSE BAdd(B(ByteAt(b, c) % 128), BShl(VarintValue(b, c + 1, n - 1), 7))

\* Where the payload of a field of wire type wt ends, its tag ending at c,
\* when the field is well formed and its payload lies before e; -1 otherwise.
FieldEnd(b, c, e, wt) ==
  LET n == VarintLen(b, c)
      l == VarintValue(b, c, n)
      stop == CASE wt = VARINT -> IF n = 0 THEN 0 - 1 ELSE c + n
                [] wt = FIXED64 -> c + 8
                [] wt = FIXED32 -> c + 4
                [] wt = DELIMITED ->
                     IF n = 0 \/ ~BLt(l, B(e + 1)) THEN 0 - 1 ELSE c + n + BToInt(l)
                [] OTHER -> 0 - 1
  IN IF stop <= e THEN stop ELSE 0 - 1

\* C20 (Spec): a skipField called for a well-formed field of wire type VARINT,
\* FIXED64, DELIMITED or FIXED32 whose payload lies before end returns with
\* the cursor at the first byte after the payload; a skipField called with
\* the wire type START_GROUP or END_GROUP fails.
C20_SkipFieldStopsAfterPayload ==
  (op = "skipField")
    => (/\ FieldEnd(bytes, pre.cursor, pre.end, pre.nextWireType) # 0 - 1
             => (~failed /\ cursor = FieldEnd(bytes, pre.cursor, pre.end, pre.nextWireType))
        /\ pre.nextWireType \in {START_GROUP, END_GROUP} => failed)

\* skipField has skipped a string of one byte whose length takes two bytes
\* and has left the cursor at the tag of the next field.
C20_Witness ==
  /\ op = "skipField"
  /\ pre.nextWireType = DELIMITED
  /\ VarintLen(bytes, pre.cursor) = 2
  /\ ~failed
  /\ cursor = pre.cursor + 3
  /\ cursor < end

\* The entry of the written map that the last Map call of the deserializer
\* was given: the entries come in the order they were written.
EntryRead == Len(msg.fields)

\* Map has just been called with the key type the map was written with.
MapReadAsWritten == op = "Map" /\ entry = "Unary" /\ ret[2][1] = map[1]

\* C21 (SpecMap): whenever Reader.Map is called, with the field types the
\* map was written with, on an entry that Writer.Map wrote with a supported
\* key type and a supported value type, it does not throw and returns the
\* key and the value of that entry.
C21_MapRoundTrip ==
  (MapReadAsWritten /\ map[1] \in KeyTypes /\ map[2] \in ValueTypes)
    => /\ ~failed
       /\ EntryRead \in 1..Len(map[3])
       /\ ret[2][3] = map[3][EntryRead][1]
       /\ ret[2][4] = map[3][EntryRead][2]


\* Writer.Map has been called on a map of at least one entry with a key type
\* it has no case for, and nothing has been called since.
MapWrittenWithBadKey ==
  wop = "Map" /\ entry = "none" /\ map[1] \in BadKeyTypes /\ map[3] # <<>>

\* Reader.Map has just been called with a key type it has no case for.
MapReadWithBadKey == op = "Map" /\ entry = "Unary" /\ ret[2][1] \in BadKeyTypes

\* C22 (SpecMap): Writer.Map on a map of at least one entry throws when the
\* key type is DOUBLE, FLOAT, BYTES, MESSAGE, GROUP or INVALID and leaves the
\* entry it began without its length; Reader.Map throws when it is called
\* with one of these key types, returns no pair and the message gets no
\* field from it.
C22_BadKeyTypeThrows ==
  /\ MapWrittenWithBadKey
       => failed /\ marks # <<>> /\ buffer = WrTag(1, DELIMITED)
  /\ MapReadWithBadKey
       => /\ failed
          /\ pc = "done"
          /\ ret[2][3] = <<>> /\ ret[2][4] = <<>>
          /\ \A i \in 1..Len(msg.fields) : msg.fields[i][4][1] \notin BadKeyTypes

\* C22 witness: Reader.Map was called with a key type it has no case for, on
\* an entry that Writer.Map wrote.
C22_Witness == MapReadWithBadKey /\ ~NoWriter /\ map[3] # <<>> /\ pre.cursor < end


\* C23 (SpecMap): when Writer.Map has been left, by its return or by a
\* throw, no delimited scope that it began is without its endDelimited: no
\* bookmark is open.
C23_DelimitedScopesClosed == (wop = "Map" /\ entry = "none") => marks = <<>>


\* C24 (Spec): when a read of the embedded deserializer that Message() called
\* has thrown, and the throw leaves Message(), end is what it was before
\* Message() was called.
C24_EndRestoredOnError == (failed /\ calls # <<>>) => end = Head(calls).oEnd


\* The end of the payload that a length-delimited read begun at pre.cursor
\* was given: the position after the length that Varint32 read there, plus
\* that length.
DeclaredEnd ==
  RdVarint32(bytes, pre.cursor, pre.end).cursor
    + BToInt(RdVarint32(bytes, pre.cursor, pre.end).val)

\* C25 (Spec): when String, Bytes or PackedInt32 has returned, the cursor is
\* the position after the length it read plus that length.
C25_DelimitedReadStopsAtDeclaredEnd ==
  (op \in {"String", "Bytes", "PackedInt32"} /\ ~failed) => cursor = DeclaredEnd


\* Every element of the array es is an integer from 0 to 255.
Octets(es) == \A i \in 1..Len(es) : es[i] \in 0..255

\* C26 (SpecRange): a write of a value inside the declared range of the
\* operation, to a buffer whose elements are integers from 0 to 255, leaves
\* a buffer whose elements are integers from 0 to 255.
C26_BufferHoldsOctets ==
  [][(Declared(wop', num') /\ ~failed' /\ Octets(buffer)) => Octets(buffer')]_vars


\* C27 (Spec): what Int32() returns is in [-2^31, 2^31) and what Uint32()
\* returns is in [0, 2^32).
C27_Int32AndUint32InRange ==
  /\ (op = "Int32" /\ ~failed) => Within(ret[2], BNeg(TWO_TO_31), TWO_TO_31)
  /\ (op = "Uint32" /\ ~failed) => Within(ret[2], B(0), TWO_TO_32)


\* C28 (SpecTag): NextField over the bytes that Tag(field, wireType) wrote,
\* field in [1, 2^29) and wireType one of 0, 1, 2, 5, returns true with that
\* field and that wire type and leaves the cursor after the last of the
\* bytes.
C28_TagReadBack ==
  (kind = "Tag" /\ op = "NextField")
    => /\ ~failed
       /\ ret[2]
       /\ nextField = BToInt(num)
       /\ WrTag(BToInt(num), nextWireType) = buffer
       /\ cursor = pre.cursor + Len(buffer)


\* C29 (SpecSkip): when skipField has returned, the cursor is not before the
\* position it had when skipField was called.
C29_SkipFieldMovesForward == (op = "skipField" /\ ~failed) => cursor >= pre.cursor
=============================================================================
